---------------------------- MODULE Spec2Model ----------------------------
(***************************************************************************)
(* Ga-68 planner: generator allocation and assignment engine.              *)
(*                                                                         *)
(* Representation.                                                         *)
(*  - A Date object is an integer number of half-minute ticks since the    *)
(*    local instant 2023-01-01T00:00 (getTime() / 30000).  Local time is   *)
(*    modelled without daylight-saving transitions.                        *)
(*  - A "YYYY-MM-DDTHH:MM" string is the record [y, mo, d, h, mi] of its   *)
(*    fields; a "YYYY-MM-DD" string is the record [y, mo, d].              *)
(*  - Durations that the program holds as a number of minutes              *)
(*    (prep_minutes, travel_minutes, minLockMinutes, deltaSinceLastMin)    *)
(*    are held in ticks, so that 7.5 minutes is the value 15.              *)
(*  - Activities (mCi) are fixed-point numbers in units of 0.01 mCi;       *)
(*    exponentials are fixed-point fractions of Scale.                     *)
(***************************************************************************)
EXTENDS Integers, Sequences, FiniteSets, TLC

\* ---------------------------------------------------------------- numbers
\* Resolution of the fixed-point fractions standing for exp(...) values.
Scale == 10000

\* round(a * b / Scale)
MulScale(a, b) == ((a * b) + (Scale \div 2)) \div Scale

\* round(Scale * 2^(-(2^k) / halfLifeTicks)), k = 0.., for HALF_LIFE_GA_MIN
GaDecayTable == <<9949, 9898, 9797, 9599, 9214, 8489, 7207, 5194, 2697, 728, 53>>
\* round(Scale * 2^(+(2^k) / halfLifeTicks)), k = 0.., for HALF_LIFE_GA_MIN
GaGrowthTable == <<10051, 10103, 10207, 10418, 10853, 11780, 13876, 19255>>
\* round(Scale * 2^(-(2^k) / halfLifeTicks)), k = 0.., for HALF_LIFE_GE_DAYS
GeDecayTable == <<10000, 10000, 10000, 10000, 10000, 10000, 9999, 9999, 9998,
                  9995, 9991, 9982, 9964, 9927, 9856, 9713, 9434, 8901, 7923,
                  6277, 3940, 1552, 241>>

\* Product of the table entries selected by the binary digits of n.
RECURSIVE TablePow(_, _, _)
TablePow(table, n, k) ==
    IF n = 0 THEN Scale
    ELSE IF k > Len(table) THEN 0
    ELSE LET rest == TablePow(table, n \div 2, k + 1)
         IN  IF n % 2 = 1 THEN MulScale(table[k], rest) ELSE rest

\* Scale * exp(-LAMBDA_GA * minutes), minutes >= 0 given in ticks
ExpDecayGa(ticks) == TablePow(GaDecayTable, ticks, 1)
\* Scale * exp(+LAMBDA_GA * minutes), minutes >= 0 given in ticks
ExpGrowthGa(ticks) == TablePow(GaGrowthTable, ticks, 1)
\* Scale * exp(-LAMBDA_GE * minutes), minutes >= 0 given in ticks
ExpDecayGe(ticks) == TablePow(GeDecayTable, ticks, 1)

Max(a, b) == IF a >= b THEN a ELSE b

\* ------------------------------------------------------- local calendar
IsLeapYear(y) == (y % 4 = 0 /\ y % 100 # 0) \/ (y % 400 = 0)

DaysInMonth(y, m) ==
    IF m = 2 THEN (IF IsLeapYear(y) THEN 29 ELSE 28)
    ELSE IF m \in {4, 6, 9, 11} THEN 30 ELSE 31

\* The years the model's dates lie in; a Date is counted from the first one.
Years == 2023..2027

RECURSIVE DaysBeforeYearRec(_)
DaysBeforeYearRec(y) ==
    IF y <= 2023 THEN 0
    ELSE DaysBeforeYearRec(y - 1) + (IF IsLeapYear(y - 1) THEN 366 ELSE 365)

YearStart == [y \in 2023..2028 |-> DaysBeforeYearRec(y)]

DaysBeforeYear(y) == YearStart[y]

RECURSIVE DaysBeforeMonthRec(_, _)
DaysBeforeMonthRec(y, m) ==
    IF m <= 1 THEN 0 ELSE DaysBeforeMonthRec(y, m - 1) + DaysInMonth(y, m - 1)

MonthStart == [y \in Years |-> [m \in 1..13 |-> DaysBeforeMonthRec(y, m)]]

DaysBeforeMonth(y, m) == MonthStart[y][m]

\* new Date(y, mo - 1, d, h, mi, 0, 0): a day of the month outside the month
\* rolls over into the neighbouring month, as the Date constructor does.
NewDate(y, mo, d, h, mi) ==
    2 * ((DaysBeforeYear(y) + DaysBeforeMonth(y, mo) + (d - 1)) * 1440 + h * 60 + mi)

DayIndex(dt) == (dt \div 2) \div 1440

YearOfDay(n) == CHOOSE y \in Years : YearStart[y] <= n /\ n < YearStart[y + 1]

MonthOfDay(n, y) ==
    CHOOSE m \in 1..12 : MonthStart[y][m] <= n - YearStart[y]
                         /\ n - YearStart[y] < MonthStart[y][m + 1]

getFullYear(dt) == YearOfDay(DayIndex(dt))
\* 1-based month (getMonth() + 1)
getMonth1(dt) == MonthOfDay(DayIndex(dt), getFullYear(dt))
getDate(dt) ==
    LET y == getFullYear(dt)
    IN  DayIndex(dt) - YearStart[y] - MonthStart[y][MonthOfDay(DayIndex(dt), y)] + 1
getHours(dt) == ((dt \div 2) % 1440) \div 60
getMinutes(dt) == (dt \div 2) % 60
\* seconds and milliseconds of the Date, in ticks
SubMinute(dt) == dt % 2

setFullYear(dt, y) ==
    NewDate(y, getMonth1(dt), getDate(dt), getHours(dt), getMinutes(dt)) + SubMinute(dt)
setDate(dt, d) ==
    NewDate(getFullYear(dt), getMonth1(dt), d, getHours(dt), getMinutes(dt)) + SubMinute(dt)
\* setHours(h, mi, 0, 0)
setHours(dt, h, mi) ==
    NewDate(getFullYear(dt), getMonth1(dt), getDate(dt), h, mi)

minutesBetween(a, b) == b - a

parseLocalDateTimeYYYYMMDDTHHMM(s) == NewDate(s.y, s.mo, s.d, s.h, s.mi)

formatLocal(dt) ==
    [y |-> getFullYear(dt), mo |-> getMonth1(dt), d |-> getDate(dt),
     h |-> getHours(dt), mi |-> getMinutes(dt)]

dateOnly(dt) == [y |-> getFullYear(dt), mo |-> getMonth1(dt), d |-> getDate(dt)]

\* ------------------------------------------------------- expiry helpers
\* Variant of generatorExpiryDate that does not step back one day.
generatorExpiryDate_NoDayBack(gen) ==
    setHours(setFullYear(parseLocalDateTimeYYYYMMDDTHHMM(gen.calibration_dt),
                         getFullYear(parseLocalDateTimeYYYYMMDDTHHMM(gen.calibration_dt)) + 1),
             23, 59)

generatorExpiryDate(gen) ==
    LET cal  == parseLocalDateTimeYYYYMMDDTHHMM(gen.calibration_dt)
        exp1 == setFullYear(cal, getFullYear(cal) + 1)
        exp2 == setDate(exp1, getDate(exp1) - 1)
    IN  setHours(exp2, 23, 59)

isGeneratorExpired(gen, eluteDt) == eluteDt > generatorExpiryDate(gen)

\* -------------------------------------------------------------- physics
parentAtTime_mCi(gen, eluteDt) ==
    LET cal     == parseLocalDateTimeYYYYMMDDTHHMM(gen.calibration_dt)
        minutes == minutesBetween(cal, eluteDt)
        A0      == gen.activity_mCi
    IN  IF minutes >= 0 THEN MulScale(A0, ExpDecayGe(minutes))
        ELSE (A0 * Scale) \div ExpDecayGe(0 - minutes)

\* ceil(ticks / 2): Math.ceil of a number of minutes held in ticks
CeilMinutes(ticks) == (ticks + 1) \div 2

\* Variant of availableAtElute_mCi whose lock test is dtMin > minLockMinutes.
availableAtElute_mCi_StrictLock(gen, eluteDt, minLockMinutes) ==
    LET last         == parseLocalDateTimeYYYYMMDDTHHMM(gen.last_eluted_dt)
        dtMin        == Max(0, minutesBetween(last, eluteDt))
        eligibleLock == dtMin > minLockMinutes
        expired      == isGeneratorExpired(gen, eluteDt)
        parent       == parentAtTime_mCi(gen, eluteDt)
        available    == MulScale((parent * gen.efficiency_pct) \div 100,
                                 Scale - ExpDecayGa(dtMin))
    IN  [available |-> available,
         eligible  |-> eligibleLock /\ ~expired,
         reason    |-> IF expired THEN <<"Expired">>
                       ELSE IF eligibleLock THEN <<>>
                       ELSE <<"Lock: needs", CeilMinutes(minLockMinutes - dtMin), "more min">>,
         deltaSinceLastMin |-> dtMin]

\* Variant of availableAtElute_mCi whose in-growth fraction is what is left of
\* the daughter, exp(-LAMBDA_GA * dtMin), instead of what has grown in.
availableAtElute_mCi_DecayingFraction(gen, eluteDt, minLockMinutes) ==
    LET last         == parseLocalDateTimeYYYYMMDDTHHMM(gen.last_eluted_dt)
        dtMin        == Max(0, minutesBetween(last, eluteDt))
        eligibleLock == dtMin >= minLockMinutes
        expired      == isGeneratorExpired(gen, eluteDt)
        parent       == parentAtTime_mCi(gen, eluteDt)
        available    == MulScale((parent * gen.efficiency_pct) \div 100, ExpDecayGa(dtMin))
    IN  [available |-> available,
         eligible  |-> eligibleLock /\ ~expired,
         reason    |-> IF expired THEN <<"Expired">>
                       ELSE IF eligibleLock THEN <<>>
                       ELSE <<"Lock: needs", CeilMinutes(minLockMinutes - dtMin), "more min">>,
         deltaSinceLastMin |-> dtMin]

\* Variant of availableAtElute_mCi whose reason reports the lock before the expiry.
availableAtElute_mCi_LockReasonFirst(gen, eluteDt, minLockMinutes) ==
    LET last         == parseLocalDateTimeYYYYMMDDTHHMM(gen.last_eluted_dt)
        dtMin        == Max(0, minutesBetween(last, eluteDt))
        eligibleLock == dtMin >= minLockMinutes
        expired      == isGeneratorExpired(gen, eluteDt)
        parent       == parentAtTime_mCi(gen, eluteDt)
        available    == MulScale((parent * gen.efficiency_pct) \div 100,
                                 Scale - ExpDecayGa(dtMin))
    IN  [available |-> available,
         eligible  |-> eligibleLock /\ ~expired,
         reason    |-> IF ~eligibleLock
                       THEN <<"Lock: needs", CeilMinutes(minLockMinutes - dtMin), "more min">>
                       ELSE IF expired THEN <<"Expired">> ELSE <<>>,
         deltaSinceLastMin |-> dtMin]

availableAtElute_mCi(gen, eluteDt, minLockMinutes) ==
    LET last         == parseLocalDateTimeYYYYMMDDTHHMM(gen.last_eluted_dt)
        dtMin        == Max(0, minutesBetween(last, eluteDt))
        eligibleLock == dtMin >= minLockMinutes
        expired      == isGeneratorExpired(gen, eluteDt)
        parent       == parentAtTime_mCi(gen, eluteDt)
        available    == MulScale((parent * gen.efficiency_pct) \div 100,
                                 Scale - ExpDecayGa(dtMin))
    IN  [available |-> available,
         eligible  |-> eligibleLock /\ ~expired,
         reason    |-> IF expired THEN <<"Expired">>
                       ELSE IF eligibleLock THEN <<>>
                       ELSE <<"Lock: needs", CeilMinutes(minLockMinutes - dtMin), "more min">>,
         deltaSinceLastMin |-> dtMin]

requiredAtElute_mCi(order) ==
    LET calDt        == parseLocalDateTimeYYYYMMDDTHHMM(order.calibration_dt)
        deltaMinutes == order.prep_minutes + order.travel_minutes
    IN  [required |-> MulScale(order.requested_mCi_at_cal, ExpGrowthGa(deltaMinutes)),
         eluteDt  |-> calDt - deltaMinutes]


\* ------------------------------------------------------ small utilities
SeqToSet(seq) == {seq[i] : i \in 1..Len(seq)}

Front(seq) == SubSeq(seq, 1, Len(seq) - 1)

Last(seq) == seq[Len(seq)]

\* a.localeCompare(b) on generator ids: the ids of the model are "G1" < "G2" < "G3" < "G4"
GenIdOrder == <<"G1", "G2", "G3", "G4">>
IdRank(id) == CHOOSE i \in 1..Len(GenIdOrder) : GenIdOrder[i] = id
localeCompare(a, b) == IdRank(a) - IdRank(b)

\* ---------------------------------------------------- wear normalization
\* Variant of normalizeDailyWear that resets the wear of every generator.
normalizeDailyWear_ResetsAll(gens, dayYYYYMMDD) ==
    [i \in 1..Len(gens) |->
        [gens[i] EXCEPT !.total_eluted_today_mCi = 0, !.wearDate = dayYYYYMMDD]]

\* normalizeDailyWear(gens, dayYYYYMMDD): a generator whose _wearDate is not
\* the day is replaced by a copy with no wear and the day; the others are
\* returned as they are.
normalizeDailyWear(gens, dayYYYYMMDD) ==
    [i \in 1..Len(gens) |->
        IF gens[i].wearDate # dayYYYYMMDD
        THEN [gens[i] EXCEPT !.total_eluted_today_mCi = 0, !.wearDate = dayYYYYMMDD]
        ELSE gens[i]]

\* ---------------------------------------------------- assignment policy
\* Variant of OrderCmp with the operands exchanged (descending order).
OrderCmp_Descending(a, b) ==
    parseLocalDateTimeYYYYMMDDTHHMM(b.calibration_dt)
      - parseLocalDateTimeYYYYMMDDTHHMM(a.calibration_dt)

\* [...orders].sort((a, b) => parse(a.calibration_dt) - parse(b.calibration_dt))
OrderCmp(a, b) ==
    parseLocalDateTimeYYYYMMDDTHHMM(a.calibration_dt)
      - parseLocalDateTimeYYYYMMDDTHHMM(b.calibration_dt)

\* Variant of InsertOrder that puts x before the elements it compares equal to.
RECURSIVE InsertOrder_BeforeEquals(_, _)
InsertOrder_BeforeEquals(seq, x) ==
    IF seq = <<>> THEN <<x>>
    ELSE IF OrderCmp(Last(seq), x) < 0 THEN Append(seq, x)
    ELSE Append(InsertOrder_BeforeEquals(Front(seq), x), Last(seq))

\* Array.prototype.sort is stable: x goes behind every element that does not
\* compare greater than it.
RECURSIVE InsertOrder(_, _)
InsertOrder(seq, x) ==
    IF seq = <<>> THEN <<x>>
    ELSE IF OrderCmp(Last(seq), x) <= 0 THEN Append(seq, x)
    ELSE Append(InsertOrder(Front(seq), x), Last(seq))

\* Variant of SortOrders that leaves the array in input order.
SortOrders_InputOrder(orders) == orders

RECURSIVE SortOrders(_)
SortOrders(orders) ==
    IF orders = <<>> THEN <<>>
    ELSE InsertOrder(SortOrders(Front(orders)), Last(orders))

\* candidates = gens.map(g => ...) of the standard policy
StdCandidate(g, eluteDt, minLockMinutes) ==
    LET avail == availableAtElute_mCi(g, eluteDt, minLockMinutes)
    IN  [gen |-> g.id,
         available |-> avail.available,
         eligible |-> avail.eligible,
         reason |-> avail.reason,
         deltaSinceLastMin |-> avail.deltaSinceLastMin,
         efficiency |-> g.efficiency_pct,
         parentAtElute |-> parentAtTime_mCi(g, eluteDt),
         wear |-> g.total_eluted_today_mCi]

\* Variant of CandCmp that compares the generator ids only.
CandCmp_IdOnly(a, b) == localeCompare(a.gen, b.gen)

\* the comparator of eligible.sort(...)
CandCmp(a, b) ==
    IF b.efficiency # a.efficiency THEN b.efficiency - a.efficiency
    ELSE IF b.available # a.available THEN b.available - a.available
    ELSE IF b.deltaSinceLastMin # a.deltaSinceLastMin
         THEN b.deltaSinceLastMin - a.deltaSinceLastMin
    ELSE IF a.wear # b.wear THEN a.wear - b.wear
    ELSE localeCompare(a.gen, b.gen)

RECURSIVE InsertCand(_, _)
InsertCand(seq, x) ==
    IF seq = <<>> THEN <<x>>
    ELSE IF CandCmp(Last(seq), x) <= 0 THEN Append(seq, x)
    ELSE Append(InsertCand(Front(seq), x), Last(seq))

RECURSIVE SortCands(_)
SortCands(cands) ==
    IF cands = <<>> THEN <<>>
    ELSE InsertCand(SortCands(Front(cands)), Last(cands))

\* Variant of FilterEligible that keeps every candidate.
FilterEligible_KeepAll(cands) == cands

\* candidates.filter(c => c.eligible)
RECURSIVE FilterEligible(_)
FilterEligible(cands) ==
    IF cands = <<>> THEN <<>>
    ELSE IF Last(cands).eligible THEN Append(FilterEligible(Front(cands)), Last(cands))
    ELSE FilterEligible(Front(cands))

\* eligible.find(c => c.available >= required): index of the first one, 0 if none
RECURSIVE FindSingle(_, _, _)
FindSingle(eligible, required, i) ==
    IF i > Len(eligible) THEN 0
    ELSE IF eligible[i].available >= required THEN i
    ELSE FindSingle(eligible, required, i + 1)

\* Variant of PairLoop that keeps the first combination that holds enough.
RECURSIVE PairLoop_FirstSufficient(_, _, _, _, _)
PairLoop_FirstSufficient(eligible, required, i, j, best) ==
    IF i > Len(eligible) THEN best
    ELSE IF j > Len(eligible)
         THEN PairLoop_FirstSufficient(eligible, required, i + 1, i + 2, best)
    ELSE LET total == eligible[i].available + eligible[j].available
             next == IF total >= required /\ best = <<>> THEN <<i, j>> ELSE best
         IN  PairLoop_FirstSufficient(eligible, required, i, j + 1, next)

\* The double loop over i < j that keeps the best combination so far;
\* best is <<>> (null) or <<i, j>>.
RECURSIVE PairLoop(_, _, _, _, _)
PairLoop(eligible, required, i, j, best) ==
    IF i > Len(eligible) THEN best
    ELSE IF j > Len(eligible) THEN PairLoop(eligible, required, i + 1, i + 2, best)
    ELSE LET total == eligible[i].available + eligible[j].available
             bestTotal == IF best = <<>> THEN 0
                          ELSE eligible[best[1]].available + eligible[best[2]].available
             next == IF total >= required /\ (best = <<>> \/ total > bestTotal)
                     THEN <<i, j>> ELSE best
         IN  PairLoop(eligible, required, i, j + 1, next)

\* Variant of SelectGenerators that tries combinations for every product.
SelectGenerators_CombineAnyProduct(product, eligible, required) ==
    LET single == FindSingle(eligible, required, 1)
    IN  IF single # 0 THEN <<single>> ELSE PairLoop(eligible, required, 1, 2, <<>>)

\* The selection block: the indices into the ranked eligible list that are assigned.
SelectGenerators(product, eligible, required) ==
    LET single == FindSingle(eligible, required, 1)
    IN  IF product = "PSMA"
        THEN IF single # 0 THEN <<single>>
             ELSE PairLoop(eligible, required, 1, 2, <<>>)
        ELSE IF single # 0 THEN <<single>> ELSE <<>>

SelectionNote(ids) ==
    IF Len(ids) = 1 THEN <<"Single generator", ids[1]>>
    ELSE <<"Combined generators", ids>>

\* Variant of ApplyWear that wears every generator of the pool.
ApplyWear_WearsAll(gens, assigned, eluteDt, perGenShare, today) ==
    [i \in 1..Len(gens) |->
        [gens[i] EXCEPT !.last_eluted_dt = formatLocal(eluteDt),
                        !.total_eluted_today_mCi = @ + perGenShare,
                        !.wearDate = today]]

\* Variant of ApplyWear that leaves last_eluted_dt as it was.
ApplyWear_KeepsLastEluted(gens, assigned, eluteDt, perGenShare, today) ==
    [i \in 1..Len(gens) |->
        IF gens[i].id \in SeqToSet(assigned)
        THEN [gens[i] EXCEPT !.total_eluted_today_mCi = @ + perGenShare,
                             !.wearDate = today]
        ELSE gens[i]]

\* for (const gid of assigned) { g.last_eluted_dt = ...; g.total_eluted_today_mCi += ...; g._wearDate = ... }
ApplyWear(gens, assigned, eluteDt, perGenShare, today) ==
    [i \in 1..Len(gens) |->
        IF gens[i].id \in SeqToSet(assigned)
        THEN [gens[i] EXCEPT !.last_eluted_dt = formatLocal(eluteDt),
                             !.total_eluted_today_mCi = @ + perGenShare,
                             !.wearDate = today]
        ELSE gens[i]]

\* Variant of StdCommit that stamps the day of the run into the message.
StdCommit_StampsToday(ord, gens, re, eligible, sel, today) ==
    [order |-> ord, gens |-> gens, msg |-> <<"Order", ord.id, "processed", today>>]

\* Variant of StdCommit that returns an unmet order without a note.
StdCommit_SilentUnmet(ord, gens, re, eligible, sel, today) ==
    [order |-> [ord EXCEPT !.assignedGeneratorIds = <<>>, !.notes = <<>>],
     gens  |-> gens,
     msg   |-> <<"Order", ord.id, "unmet; insufficient availability.">>]

\* Variant of StdCommit that stamps the day of the run on every working
\* generator when the order is unmet.
StdCommit_UnmetStampsWearDate(ord, gens, re, eligible, sel, today) ==
    [order |-> [ord EXCEPT !.assigned_elute_dt = formatLocal(re.eluteDt),
                           !.assignedGeneratorIds =
                               [k \in 1..Len(sel) |-> eligible[sel[k]].gen],
                           !.assigned_delta_minutes =
                               [k \in 1..Len(sel) |-> eligible[sel[k]].deltaSinceLastMin],
                           !.notes = <<"required @ elute", re.required>>],
     gens  |-> IF Len(sel) > 0
               THEN ApplyWear(gens, [k \in 1..Len(sel) |-> eligible[sel[k]].gen],
                              re.eluteDt, re.required \div Len(sel), today)
               ELSE [i \in 1..Len(gens) |-> [gens[i] EXCEPT !.wearDate = today]],
     msg   |-> <<"Order", ord.id, "processed">>]

\* The tail of a loop iteration of assignOrdersEfficient: build oCopy, wear the
\* assigned generators, push the message.  sel holds the selected indices of
\* the ranked list eligible.
\* Variant of StdCommit whose unmet branch leaves the generator ids and the
\* elapsed minutes stored on the order as they are.
StdCommit_UnmetKeepsStored(ord, gens, re, eligible, sel, today) ==
    IF Len(sel) > 0
    THEN [order |-> [ord EXCEPT !.assigned_elute_dt = formatLocal(re.eluteDt),
                                !.assignedGeneratorIds =
                                    [k \in 1..Len(sel) |-> eligible[sel[k]].gen],
                                !.assigned_delta_minutes =
                                    [k \in 1..Len(sel) |-> eligible[sel[k]].deltaSinceLastMin],
                                !.notes =
                                    SelectionNote([k \in 1..Len(sel) |-> eligible[sel[k]].gen])
                                      \o <<"required @ elute", re.required>>],
          gens  |-> ApplyWear(gens, [k \in 1..Len(sel) |-> eligible[sel[k]].gen],
                              re.eluteDt, re.required \div Len(sel), today),
          msg   |-> <<"Order", ord.id, "assigned",
                      [k \in 1..Len(sel) |-> eligible[sel[k]].gen],
                      "at", formatLocal(re.eluteDt)>>]
    ELSE [order |-> [ord EXCEPT !.assigned_elute_dt = formatLocal(re.eluteDt),
                                !.notes = <<"Insufficient availability. Required @ elute",
                                            re.required>>],
          gens  |-> gens,
          msg   |-> <<"Order", ord.id, "unmet; insufficient availability.">>]

StdCommit(ord, gens, re, eligible, sel, today) ==
    IF Len(sel) > 0
    THEN [order |-> [ord EXCEPT !.assigned_elute_dt = formatLocal(re.eluteDt),
                                !.assignedGeneratorIds =
                                    [k \in 1..Len(sel) |-> eligible[sel[k]].gen],
                                !.assigned_delta_minutes =
                                    [k \in 1..Len(sel) |-> eligible[sel[k]].deltaSinceLastMin],
                                !.notes =
                                    SelectionNote([k \in 1..Len(sel) |-> eligible[sel[k]].gen])
                                      \o <<"required @ elute", re.required>>],
          gens  |-> ApplyWear(gens, [k \in 1..Len(sel) |-> eligible[sel[k]].gen],
                              re.eluteDt, re.required \div Len(sel), today),
          msg   |-> <<"Order", ord.id, "assigned",
                      [k \in 1..Len(sel) |-> eligible[sel[k]].gen],
                      "at", formatLocal(re.eluteDt)>>]
    ELSE [order |-> [ord EXCEPT !.assigned_elute_dt = formatLocal(re.eluteDt),
                                !.assignedGeneratorIds = <<>>,
                                !.assigned_delta_minutes = <<>>,
                                !.notes = <<"Insufficient availability. Required @ elute",
                                            re.required>>],
          gens  |-> gens,
          msg   |-> <<"Order", ord.id, "unmet; insufficient availability.">>]

\* The ranked eligible candidates of the standard policy for an elution at eluteDt.
StdEligible(gens, eluteDt, minLockMinutes) ==
    SortCands(FilterEligible(
        [i \in 1..Len(gens) |-> StdCandidate(gens[i], eluteDt, minLockMinutes)]))

StdSelect(ord, gens, re, eligible, today) ==
    StdCommit(ord, gens, re, eligible,
              SelectGenerators(ord.product, eligible, re.required), today)

StdRank(ord, gens, re, minLockMinutes, today) ==
    StdSelect(ord, gens, re, StdEligible(gens, re.eluteDt, minLockMinutes), today)

\* One iteration of the loop "for (const ord of sorted)" of assignOrdersEfficient.
\* today is what todayLocalDate() returns during the iteration.
StdIteration(ord, gens, minLockMinutes, today) ==
    StdRank(ord, gens, requiredAtElute_mCi(ord), minLockMinutes, today)

\* The whole of assignOrdersEfficient, run without interruption on one clock
\* reading: the loop folded over the sorted orders.
RECURSIVE StdLoop(_, _, _, _, _)
StdLoop(sorted, gens, minLockMinutes, today, acc) ==
    IF sorted = <<>> THEN [orders |-> acc.orders, messages |-> acc.messages, gens |-> gens]
    ELSE LET it == StdIteration(Head(sorted), gens, minLockMinutes, today)
         IN  StdLoop(Tail(sorted), it.gens, minLockMinutes, today,
                     [orders |-> Append(acc.orders, it.order),
                      messages |-> Append(acc.messages, it.msg)])

\* Returns orders and messages; gens is the function's private working copy
\* (generators.map(g => ({...g}))), which the caller never sees.
assignOrdersEfficient(orders, generators, minLockMinutes, today) ==
    StdLoop(SortOrders(orders), generators, minLockMinutes, today,
            [orders |-> <<>>, messages |-> <<>>])

\* ------------------------------------------------ simulation assignment
\* Variant of ignoreLockOnFirst in which an omitted option counts as false.
ignoreLockOnFirst_DefaultFalse(options) ==
    IF "firstUseIgnoresLock" \in DOMAIN options THEN options.firstUseIgnoresLock ELSE FALSE

\* const ignoreLockOnFirst = options.firstUseIgnoresLock ?? true;
\* an omitted option is a field the options record does not have.
ignoreLockOnFirst(options) ==
    IF "firstUseIgnoresLock" \in DOMAIN options THEN options.firstUseIgnoresLock ELSE TRUE

\* Variant of SimLiveCandidate that applies the lock window whatever respectLock is.
SimLiveCandidate_AlwaysLocks(g, eluteDt, options, usedFirst) ==
    LET baseline == availableAtElute_mCi(g, eluteDt, options.minLockMinutes)
        firstUse == options.treatFirstUseMax /\ g.id \notin usedFirst
        parent   == parentAtTime_mCi(g, eluteDt)
    IN  [gen |-> g.id,
         available |-> IF firstUse THEN (parent * g.efficiency_pct) \div 100
                       ELSE baseline.available,
         eligible |-> IF firstUse
                      THEN ~isGeneratorExpired(g, eluteDt)
                           /\ (IF ignoreLockOnFirst(options) THEN TRUE ELSE baseline.eligible)
                      ELSE baseline.eligible,
         reason |-> <<>>,
         deltaSinceLastMin |-> baseline.deltaSinceLastMin,
         efficiency |-> g.efficiency_pct,
         parentAtElute |-> parent,
         wear |-> g.total_eluted_today_mCi]

\* The candidate of the simulation policy for a generator that passed the
\* expiry test at the head of the callback.
SimLiveCandidate(g, eluteDt, options, usedFirst) ==
    LET baseline == availableAtElute_mCi(g, eluteDt,
                        IF options.respectLock THEN options.minLockMinutes ELSE 0)
        firstUse == options.treatFirstUseMax /\ g.id \notin usedFirst
        parent   == parentAtTime_mCi(g, eluteDt)
    IN  [gen |-> g.id,
         available |-> IF firstUse THEN (parent * g.efficiency_pct) \div 100
                       ELSE baseline.available,
         eligible |-> IF firstUse
                      THEN ~isGeneratorExpired(g, eluteDt)
                           /\ (IF ignoreLockOnFirst(options) THEN TRUE
                               ELSE IF options.respectLock THEN baseline.eligible
                               ELSE TRUE)
                      ELSE baseline.eligible \/ ~options.respectLock,
         reason |-> <<>>,
         deltaSinceLastMin |-> baseline.deltaSinceLastMin,
         efficiency |-> g.efficiency_pct,
         parentAtElute |-> parent,
         wear |-> g.total_eluted_today_mCi]

\* Variant of SimCandidate without the expiry test at its head.
SimCandidate_NoExpiryGuard(g, eluteDt, options, usedFirst) ==
    SimLiveCandidate(g, eluteDt, options, usedFirst)

\* candidates = gens.map(g => ...) of the simulation policy
SimCandidate(g, eluteDt, options, usedFirst) ==
    IF isGeneratorExpired(g, eluteDt)
    THEN [gen |-> g.id, available |-> 0, eligible |-> FALSE, reason |-> <<"Expired">>,
          deltaSinceLastMin |-> 0, efficiency |-> g.efficiency_pct,
          parentAtElute |-> parentAtTime_mCi(g, eluteDt),
          wear |-> g.total_eluted_today_mCi]
    ELSE SimLiveCandidate(g, eluteDt, options, usedFirst)

\* Variant of SimCommit that does not remember the selected generators.
SimCommit_ForgetsFirstUse(ord, gens, re, eligible, sel, usedFirst) ==
    [order |-> [ord EXCEPT !.assigned_elute_dt = formatLocal(re.eluteDt),
                           !.assignedGeneratorIds =
                               [k \in 1..Len(sel) |-> eligible[sel[k]].gen],
                           !.assigned_delta_minutes =
                               [k \in 1..Len(sel) |-> eligible[sel[k]].deltaSinceLastMin],
                           !.notes = <<"required @ elute", re.required, "(simulation)">>],
     gens  |-> gens,
     usedFirst |-> usedFirst,
     msg   |-> <<"Sim", ord.id, "processed">>]

\* The tail of a loop iteration of assignOrdersEfficientSim: build oCopy, push
\* the message, remember the selected generators in usedFirst.  The working
\* generators are not written.
SimCommit(ord, gens, re, eligible, sel, usedFirst) ==
    IF Len(sel) > 0
    THEN [order |-> [ord EXCEPT !.assigned_elute_dt = formatLocal(re.eluteDt),
                                !.assignedGeneratorIds =
                                    [k \in 1..Len(sel) |-> eligible[sel[k]].gen],
                                !.assigned_delta_minutes =
                                    [k \in 1..Len(sel) |-> eligible[sel[k]].deltaSinceLastMin],
                                !.notes =
                                    SelectionNote([k \in 1..Len(sel) |-> eligible[sel[k]].gen])
                                      \o <<"required @ elute", re.required, "(simulation)">>],
          gens  |-> gens,
          usedFirst |-> usedFirst \cup {eligible[sel[k]].gen : k \in 1..Len(sel)},
          msg   |-> <<"Sim", ord.id, "assigned",
                      [k \in 1..Len(sel) |-> eligible[sel[k]].gen],
                      "at", formatLocal(re.eluteDt)>>]
    ELSE [order |-> [ord EXCEPT !.assigned_elute_dt = formatLocal(re.eluteDt),
                                !.assignedGeneratorIds = <<>>,
                                !.assigned_delta_minutes = <<>>,
                                !.notes = <<"Unmet (simulation). Required @ elute",
                                            re.required>>],
          gens  |-> gens,
          usedFirst |-> usedFirst,
          msg   |-> <<"Sim", ord.id, "unmet.">>]

\* The ranked eligible candidates of the simulation policy.
SimEligible(gens, eluteDt, options, usedFirst) ==
    SortCands(FilterEligible(
        [i \in 1..Len(gens) |-> SimCandidate(gens[i], eluteDt, options, usedFirst)]))

SimSelect(ord, gens, re, eligible, usedFirst) ==
    SimCommit(ord, gens, re, eligible,
              SelectGenerators(ord.product, eligible, re.required), usedFirst)

SimRank(ord, gens, re, options, usedFirst) ==
    SimSelect(ord, gens, re, SimEligible(gens, re.eluteDt, options, usedFirst), usedFirst)

\* One iteration of the loop of assignOrdersEfficientSim.
SimIteration(ord, gens, options, usedFirst) ==
    SimRank(ord, gens, requiredAtElute_mCi(ord), options, usedFirst)

RECURSIVE SimLoop(_, _, _, _, _)
\* for (const ord of sorted) { ... } of assignOrdersEfficientSim
SimLoop(sorted, gens, options, usedFirst, acc) ==
    IF sorted = <<>> THEN acc
    ELSE LET it == SimIteration(Head(sorted), gens, options, usedFirst)
         IN  SimLoop(Tail(sorted), it.gens, options, it.usedFirst,
                     [orders   |-> Append(acc.orders, it.order),
                      messages |-> Append(acc.messages, it.msg)])

\* assignOrdersEfficientSim(orders, generators, options)
assignOrdersEfficientSim(orders, generators, options) ==
    SimLoop(SortOrders(orders), generators, options, {},
            [orders |-> <<>>, messages |-> <<>>])

\* =================================================================== state
VARIABLES
    argOrders,      \* the orders array passed to the assignment function
    argGenerators,  \* the generators array passed to it
    argOptions,     \* which policy is called, and its options
    today,          \* what todayLocalDate() returns now
    pc,             \* "call" | "loop" | "returned": position in the function
    run,            \* 1 for the first call on these arguments, 2 for the second
    sorted,         \* the part of `sorted` the loop has not reached yet
    gens,           \* the function's working copies of the generators
    usedFirst,      \* simulation only: generators already selected in this run
    resultOrders,   \* resultOrders
    msgs,           \* msgs
    firstResult,    \* what the first call returned (<<>> before it returns)
    probe,          \* arguments of a direct call of availableAtElute_mCi
    verdict,        \* what that call returned
    stOrders,       \* object store "orders": id -> record
    stGenerators,   \* object store "generators": id -> record
    orders,         \* React state `orders`
    generators,     \* React state `generators`
    minLockMinutes, \* React state `minLockMinutes`
    busy,           \* React state `busy`
    hpc,            \* position of the running handler of App, "idle" if none
    txOrders,       \* orders put by the open rescan transaction
    txGenerators,   \* generators put by the open rescan transaction
    txPuts,         \* how many put requests of that transaction have succeeded
    toast,          \* React state `toast`, <<>> for null
    stFutureOrders, \* object store "future_orders": id -> record
    stHospitals,    \* object store "hospitals": id -> record
    futureOrders,   \* React state `futureOrders`
    tasks           \* the other handlers of App: name -> position and locals

\* the arguments of a call of an assignment function
argVars == <<argOrders, argGenerators, argOptions>>
\* the locals of a running assignment function, and the caller's record of it
engineVars == <<pc, run, sorted, gens, usedFirst, resultOrders, msgs, firstResult>>
\* a direct call of the eligibility evaluator
probeVars == <<probe, verdict>>

\* the stores and the App component
appVars == <<stOrders, stGenerators, orders, generators, minLockMinutes, busy, hpc,
             txOrders, txGenerators, txPuts, toast>>
\* the future vault, the hospitals and the handlers other than rescanAll
vaultVars == <<stFutureOrders, stHospitals, futureOrders, tasks>>

vars == <<argVars, today, engineVars, probeVars, appVars, vaultVars>>

\* No assignment function is being called.
EngineIdle ==
    /\ argOrders = <<>>
    /\ argGenerators = <<>>
    /\ argOptions = <<>>
    /\ pc = "idle"
    /\ run = 0
    /\ sorted = <<>>
    /\ gens = <<>>
    /\ usedFirst = {}
    /\ resultOrders = <<>>
    /\ msgs = <<>>
    /\ firstResult = <<>>

\* The evaluator is not being called directly.
ProbeIdle ==
    /\ probe = <<>>
    /\ verdict = <<>>

\* No App is mounted.
AppIdle ==
    /\ stOrders = <<>>
    /\ stGenerators = <<>>
    /\ orders = <<>>
    /\ generators = <<>>
    /\ minLockMinutes = 0
    /\ busy = FALSE
    /\ hpc = "unmounted"
    /\ txOrders = <<>>
    /\ txGenerators = <<>>
    /\ txPuts = 0
    /\ toast = <<>>
    /\ stFutureOrders = <<>>
    /\ stHospitals = <<>>
    /\ futureOrders = <<>>
    /\ tasks = <<>>

\* ------------------------------------------------------------------ inputs
\* Longest orders array the model passes in.
MaxOrders == 2

Today == [y |-> 2024, mo |-> 3, d |-> 1]
Yesterday == [y |-> 2024, mo |-> 2, d |-> 29]
Tomorrow == [y |-> 2024, mo |-> 3, d |-> 2]

\* "2024-03-01THH:MM"
At(h, mi) == [y |-> 2024, mo |-> 3, d |-> 1, h |-> h, mi |-> mi]

\* Generators as the store holds them, without their id.
\* 50 mCi at 60 %, rested since 08:00
GenRested ==
    [activity_mCi |-> 5000, efficiency_pct |-> 60,
     calibration_dt |-> [y |-> 2024, mo |-> 2, d |-> 1, h |-> 8, mi |-> 0],
     last_eluted_dt |-> At(8, 0), total_eluted_today_mCi |-> 0, wearDate |-> Today]
\* the same, eluted at 10:20 today
GenJustEluted ==
    [activity_mCi |-> 5000, efficiency_pct |-> 60,
     calibration_dt |-> [y |-> 2024, mo |-> 2, d |-> 1, h |-> 8, mi |-> 0],
     last_eluted_dt |-> At(10, 20), total_eluted_today_mCi |-> 500, wearDate |-> Today]
\* 30 mCi at 80 %, wear counted yesterday
GenEfficient ==
    [activity_mCi |-> 3000, efficiency_pct |-> 80,
     calibration_dt |-> [y |-> 2024, mo |-> 2, d |-> 1, h |-> 8, mi |-> 0],
     last_eluted_dt |-> At(8, 0), total_eluted_today_mCi |-> 300, wearDate |-> Yesterday]
\* calibrated 2023-03-01: expired since 2024-02-29T23:59
GenExpired ==
    [activity_mCi |-> 5000, efficiency_pct |-> 60,
     calibration_dt |-> [y |-> 2023, mo |-> 3, d |-> 1, h |-> 10, mi |-> 0],
     last_eluted_dt |-> At(8, 0), total_eluted_today_mCi |-> 0, wearDate |-> Today]

\* GenRested after 4 mCi were drawn from it today
GenWorn ==
    [activity_mCi |-> 5000, efficiency_pct |-> 60,
     calibration_dt |-> [y |-> 2024, mo |-> 2, d |-> 1, h |-> 8, mi |-> 0],
     last_eluted_dt |-> At(8, 0), total_eluted_today_mCi |-> 400, wearDate |-> Today]

\* The generator pools of the model, as sequences of profiles; the generator at
\* position i gets the id GenIdOrder[i].
PoolProfiles ==
    { <<GenRested>>, <<GenJustEluted>>, <<GenExpired>>,
      <<GenRested, GenEfficient>>, <<GenRested, GenRested>>,
      <<GenExpired, GenRested>>, <<GenWorn, GenRested>>,
      <<GenEfficient, GenJustEluted, GenRested>>,
      <<GenEfficient, GenRested, GenRested, GenRested>> }

\* Orders as the operator enters them, without id and assignment fields.
\* prep_minutes and travel_minutes are in ticks (30 = 15 min, 91 = 45.5 min).
OrderProfiles ==
    { [product |-> "PSMA", requested_mCi_at_cal |-> 1500, calibration_dt |-> At(11, 0),
       prep_minutes |-> 30, travel_minutes |-> 30],
      [product |-> "PSMA", requested_mCi_at_cal |-> 2500, calibration_dt |-> At(11, 0),
       prep_minutes |-> 30, travel_minutes |-> 30],
      [product |-> "Dotatate", requested_mCi_at_cal |-> 2500, calibration_dt |-> At(11, 0),
       prep_minutes |-> 30, travel_minutes |-> 30],
      [product |-> "Research", requested_mCi_at_cal |-> 500, calibration_dt |-> At(11, 20),
       prep_minutes |-> 30, travel_minutes |-> 91],
      [product |-> "PSMA", requested_mCi_at_cal |-> 250, calibration_dt |-> At(11, 29),
       prep_minutes |-> 30, travel_minutes |-> 70] }

OrderIds == <<"O1", "O2", "O3", "O4">>

MakeOrder(i, p) ==
    [id |-> OrderIds[i], hospitalId |-> "H1", product |-> p.product,
     requested_mCi_at_cal |-> p.requested_mCi_at_cal,
     calibration_dt |-> p.calibration_dt,
     prep_minutes |-> p.prep_minutes, travel_minutes |-> p.travel_minutes,
     assignedGeneratorIds |-> <<>>, assigned_elute_dt |-> <<>>,
     assigned_delta_minutes |-> <<>>, notes |-> <<>>]

MakeGenerator(i, p) ==
    [id |-> GenIdOrder[i], activity_mCi |-> p.activity_mCi,
     efficiency_pct |-> p.efficiency_pct, calibration_dt |-> p.calibration_dt,
     last_eluted_dt |-> p.last_eluted_dt,
     total_eluted_today_mCi |-> p.total_eluted_today_mCi, wearDate |-> p.wearDate]

OrderBatches ==
    UNION { { [i \in 1..n |-> MakeOrder(i, f[i])] : f \in [1..n -> OrderProfiles] }
            : n \in 1..MaxOrders }

GeneratorPools ==
    { [i \in 1..Len(pp) |-> MakeGenerator(i, pp[i])] : pp \in PoolProfiles }

\* minLockMinutes = 20 (the default of the UI) or 0, in ticks
LockChoices == {0, 40}

StandardOptions ==
    { [policy |-> "standard", minLockMinutes |-> l, respectLock |-> TRUE,
       treatFirstUseMax |-> FALSE, firstUseIgnoresLock |-> TRUE] : l \in LockChoices }

SimulationOptions ==
    { [policy |-> "simulation", minLockMinutes |-> 40, respectLock |-> r,
       treatFirstUseMax |-> t, firstUseIgnoresLock |-> f] :
       r \in BOOLEAN, t \in BOOLEAN, f \in BOOLEAN }
    \cup
    \* firstUseIgnoresLock omitted (it is read on a first use only)
    { [policy |-> "simulation", minLockMinutes |-> 40, respectLock |-> r,
       treatFirstUseMax |-> TRUE] : r \in BOOLEAN }

\* ------------------------------------------------------------- the engine
Init ==
    /\ argOrders \in OrderBatches
    /\ argGenerators \in GeneratorPools
    /\ argOptions \in StandardOptions \cup SimulationOptions
    /\ today = Today
    /\ pc = "call"
    /\ run = 1
    /\ sorted = <<>>
    /\ gens = <<>>
    /\ usedFirst = {}
    /\ resultOrders = <<>>
    /\ msgs = <<>>
    /\ firstResult = <<>>
    /\ ProbeIdle
    /\ AppIdle

\* Entry of assignOrdersEfficient / assignOrdersEfficientSim: copy the
\* generators, sort a copy of the orders.
BeginRun ==
    /\ pc = "call"
    /\ pc' = "loop"
    /\ sorted' = SortOrders(argOrders)
    /\ gens' = argGenerators
    /\ usedFirst' = {}
    /\ resultOrders' = <<>>
    /\ msgs' = <<>>
    /\ UNCHANGED <<argVars, vaultVars, today, run, firstResult, probeVars, appVars>>

\* One iteration of the loop of assignOrdersEfficient.
StdStep ==
    /\ pc = "loop"
    /\ argOptions.policy = "standard"
    /\ sorted # <<>>
    /\ \E it \in {StdIteration(Head(sorted), gens, argOptions.minLockMinutes, today)} :
           /\ gens' = it.gens
           /\ resultOrders' = Append(resultOrders, it.order)
           /\ msgs' = Append(msgs, it.msg)
    /\ sorted' = Tail(sorted)
    /\ UNCHANGED <<argVars, vaultVars, today, pc, run, usedFirst, firstResult, probeVars, appVars>>

\* One iteration of the loop of assignOrdersEfficientSim.
SimStep ==
    /\ pc = "loop"
    /\ argOptions.policy = "simulation"
    /\ sorted # <<>>
    /\ \E it \in {SimIteration(Head(sorted), gens, argOptions, usedFirst)} :
           /\ gens' = it.gens
           /\ usedFirst' = it.usedFirst
           /\ resultOrders' = Append(resultOrders, it.order)
           /\ msgs' = Append(msgs, it.msg)
    /\ sorted' = Tail(sorted)
    /\ UNCHANGED <<argVars, vaultVars, today, pc, run, firstResult, probeVars, appVars>>

\* return { orders: resultOrders, messages: msgs }
ReturnRun ==
    /\ pc = "loop"
    /\ sorted = <<>>
    /\ pc' = "returned"
    /\ firstResult' = IF run = 1 THEN [orders |-> resultOrders, messages |-> msgs]
                      ELSE firstResult
    /\ UNCHANGED <<argVars, vaultVars, today, run, sorted, gens, usedFirst, resultOrders, msgs,
                   probeVars, appVars>>

\* The caller calls the standard policy a second time with the same arguments.
CallAgain ==
    /\ pc = "returned"
    /\ run = 1
    /\ argOptions.policy = "standard"
    /\ run' = 2
    /\ pc' = "call"
    /\ UNCHANGED <<argVars, vaultVars, today, sorted, gens, usedFirst, resultOrders, msgs,
                   firstResult, probeVars, appVars>>

\* Local midnight passes: todayLocalDate() returns the next day from now on.
ClockTick ==
    /\ today = Today
    /\ today' = Tomorrow
    /\ UNCHANGED <<argVars, vaultVars, engineVars, probeVars, appVars>>

Next == BeginRun \/ StdStep \/ SimStep \/ ReturnRun \/ CallAgain \/ ClockTick

Spec == Init /\ [][Next]_vars


\* ============================================ the eligibility evaluator alone
\* Calibration instants of the generators handed to the evaluator: around the
\* leap day, around the turn of the year, at several times of the day.
ProbeCalibrations ==
    { [y |-> 2023, mo |-> 3, d |-> 1, h |-> 10, mi |-> 0],
      [y |-> 2024, mo |-> 2, d |-> 28, h |-> 23, mi |-> 59],
      [y |-> 2024, mo |-> 2, d |-> 29, h |-> 8, mi |-> 0],
      [y |-> 2024, mo |-> 3, d |-> 1, h |-> 0, mi |-> 0],
      [y |-> 2023, mo |-> 12, d |-> 31, h |-> 12, mi |-> 0],
      [y |-> 2024, mo |-> 1, d |-> 1, h |-> 0, mi |-> 1] }

\* minLockMinutes handed to the evaluator, in ticks: 0, 20 min, 20.5 min
ProbeLocks == {0, 40, 41}

CivilDay(s) == [y |-> s.y, mo |-> s.mo, d |-> s.d]

\* The day one year later: the same month and day of the following year, or,
\* where that year has no such day (29 February), the first day after it.
OneYearLater(c) ==
    IF c.d <= DaysInMonth(c.y + 1, c.mo) THEN [c EXCEPT !.y = c.y + 1]
    ELSE [y |-> c.y + 1, mo |-> c.mo + 1, d |-> 1]

\* The calendar day before the given day.
DayBefore(c) ==
    IF c.d > 1 THEN [c EXCEPT !.d = c.d - 1]
    ELSE IF c.mo > 1 THEN [y |-> c.y, mo |-> c.mo - 1, d |-> DaysInMonth(c.y, c.mo - 1)]
    ELSE [y |-> c.y - 1, mo |-> 12, d |-> 31]

\* The day "D + 1 year - 1 day" of a calibration time D.
LastServiceDay(calibration_dt) == DayBefore(OneYearLater(CivilDay(calibration_dt)))

\* The Date of HH:MM on a calendar day.
InstantOn(c, h, mi) == NewDate(c.y, c.mo, c.d, h, mi)

\* A generator calibrated at c and last eluted at l.
ProbeGenerator(c, l) ==
    [id |-> "G1", activity_mCi |-> 5000, efficiency_pct |-> 60, calibration_dt |-> c,
     last_eluted_dt |-> l, total_eluted_today_mCi |-> 0, wearDate |-> Today]

\* Last elutions tried for a generator calibrated at c: at calibration, and ten
\* minutes before the last minute of its last service day.
ProbeLastEluted(c) ==
    { c,
      [y |-> LastServiceDay(c).y, mo |-> LastServiceDay(c).mo, d |-> LastServiceDay(c).d,
       h |-> 23, mi |-> 49] }

\* Elution instants tried: around the end of the lock window, before the last
\* elution, and around the last minute of the last service day.
ProbeElutes(g, l) ==
    {parseLocalDateTimeYYYYMMDDTHHMM(g.last_eluted_dt) + l + k : k \in -3..3}
    \cup {parseLocalDateTimeYYYYMMDDTHHMM(g.last_eluted_dt) + 2880,
          parseLocalDateTimeYYYYMMDDTHHMM(g.last_eluted_dt) - 20}
    \cup {InstantOn(LastServiceDay(g.calibration_dt), 23, 59) + k : k \in -2..3}

ProbeArguments ==
    UNION { UNION { { [gen |-> ProbeGenerator(c, last), eluteDt |-> e, minLockMinutes |-> l] :
                        e \in {x \in ProbeElutes(ProbeGenerator(c, last), l) : x >= 0} }
                    : last \in ProbeLastEluted(c) }
            : c \in ProbeCalibrations, l \in ProbeLocks }

InitElig ==
    /\ EngineIdle
    /\ AppIdle
    /\ today = Today
    /\ probe \in ProbeArguments
    /\ verdict = <<>>

\* The call availableAtElute_mCi(gen, eluteDt, minLockMinutes), beside
\* isGeneratorExpired(gen, eluteDt) on the same arguments.
Evaluate ==
    /\ verdict = <<>>
    /\ verdict' = [avail |-> availableAtElute_mCi(probe.gen, probe.eluteDt, probe.minLockMinutes),
                   expired |-> isGeneratorExpired(probe.gen, probe.eluteDt)]
    /\ UNCHANGED <<argVars, vaultVars, today, engineVars, probe, appVars>>

NextElig == Evaluate

SpecElig == InitElig /\ [][NextElig]_vars

\* =========================================================== the App, rescan
FutureIds == <<"F1", "F2">>
HospitalIds == <<"H1", "H2">>

\* Keys of the object stores in ascending key order.
KeyOrder == FutureIds \o GenIdOrder \o HospitalIds \o OrderIds

\* store.put(value): insert or overwrite under value.id
idbPut(store, value) ==
    [k \in (DOMAIN store) \cup {value.id} |-> IF k = value.id THEN value ELSE store[k]]

RECURSIVE PutAll(_, _, _)
\* values.forEach((v) => store.put(v)), from position k on
PutAll(store, values, k) ==
    IF k > Len(values) THEN store ELSE PutAll(idbPut(store, values[k]), values, k + 1)

\* store.getAll(): every record, in ascending key order
idbGetAll(store) ==
    LET keys == SelectSeq(KeyOrder, LAMBDA k : k \in DOMAIN store)
    IN  [i \in 1..Len(keys) |-> store[keys[i]]]

\* Variant of runRescan whose updatedById holds the generators as the
\* assignment left them (last elution and wear advanced).
runRescan_ReturnsWorkingGens(currentOrders, currentGenerators, lock, day) ==
    LET baselineGens == normalizeDailyWear(currentGenerators, day)
        reassigned   == assignOrdersEfficient(currentOrders, baselineGens, lock, day)
    IN  [orders      |-> reassigned.orders,
         updatedById |-> [id \in {reassigned.gens[i].id : i \in 1..Len(reassigned.gens)} |->
                            reassigned.gens[CHOOSE i \in 1..Len(reassigned.gens) :
                                            reassigned.gens[i].id = id]]]

\* runRescan(currentOrders, currentGenerators), with the state `minLockMinutes`
\* and the clock it reads passed in. updatedById is built from baselineGens,
\* the array handed to assignOrdersEfficient, which works on copies of its own.
runRescan(currentOrders, currentGenerators, lock, day) ==
    LET baselineGens == normalizeDailyWear(currentGenerators, day)
        reassigned   == assignOrdersEfficient(currentOrders, baselineGens, lock, day)
    IN  [orders      |-> reassigned.orders,
         updatedById |-> [id \in {baselineGens[i].id : i \in 1..Len(baselineGens)} |->
                            baselineGens[CHOOSE i \in 1..Len(baselineGens) :
                                            baselineGens[i].id = id]]]

\* generators.map((g) => reassigned.updatedById[g.id] ?? g)
UpdatedGens(gs, updatedById) ==
    [i \in 1..Len(gs) |->
        IF gs[i].id \in DOMAIN updatedById THEN updatedById[gs[i].id] ELSE gs[i]]

\* The App is mounted over stores holding a batch of unassigned orders and a
\* pool; its state has been loaded from the stores.
InitRescan ==
    /\ EngineIdle
    /\ ProbeIdle
    /\ today = Today
    /\ \E batch \in OrderBatches, pool \in GeneratorPools :
        /\ stOrders = PutAll(<<>>, batch, 1)
        /\ stGenerators = PutAll(<<>>, pool, 1)
        /\ orders = batch
        /\ generators = pool
    /\ minLockMinutes \in LockChoices
    /\ busy = FALSE
    /\ hpc = "idle"
    /\ txOrders = <<>>
    /\ txGenerators = <<>>
    /\ txPuts = 0
    /\ toast = <<>>
    /\ stFutureOrders = <<>>
    /\ stHospitals = <<>>
    /\ futureOrders = <<>>
    /\ tasks = <<>>

\* The "Min Lock" input is edited.
SetMinLock ==
    /\ hpc = "idle"
    /\ \E l \in LockChoices : l # minLockMinutes /\ minLockMinutes' = l
    /\ UNCHANGED <<argVars, vaultVars, today, engineVars, probeVars, stOrders, stGenerators,
                   orders, generators, busy, hpc, txOrders, txGenerators, txPuts, toast>>

\* rescanAll up to its first await: setBusy, runRescan on the state arrays,
\* and the transaction of idbWriteRescanAtomically opened with all its puts
\* requested.
rescanAll_Begin ==
    /\ hpc = "idle"
    /\ ~busy
    /\ busy' = TRUE
    /\ \E reassigned \in {runRescan(orders, generators, minLockMinutes, today)} :
        /\ txOrders' = reassigned.orders
        /\ txGenerators' = UpdatedGens(generators, reassigned.updatedById)
    /\ txPuts' = 0
    /\ hpc' = "rescanAll:write"
    /\ UNCHANGED <<argVars, vaultVars, today, engineVars, probeVars, stOrders, stGenerators,
                   orders, generators, minLockMinutes, toast>>

\* The first n of the values put into the store.
PutFirst(store, values, n) == PutAll(store, SubSeq(values, 1, n), 1)

\* The orders store and the generators store as the open transaction sees
\* them after its first txPuts requests: the orders are put first.
TxOrdersView ==
    PutFirst(stOrders, txOrders, IF txPuts < Len(txOrders) THEN txPuts ELSE Len(txOrders))
TxGeneratorsView ==
    PutFirst(stGenerators, txGenerators,
             IF txPuts < Len(txOrders) THEN 0 ELSE txPuts - Len(txOrders))

\* The next put request of the transaction succeeds; nothing of the
\* transaction is in the stores before it completes.
idbWriteRescanAtomically_Put ==
    /\ hpc = "rescanAll:write"
    /\ txPuts < Len(txOrders) + Len(txGenerators)
    /\ txPuts' = txPuts + 1
    /\ UNCHANGED <<argVars, vaultVars, today, engineVars, probeVars, stOrders, stGenerators,
                   orders, generators, minLockMinutes, busy, hpc, txOrders, txGenerators,
                   toast>>

\* tx.oncomplete: every put of the transaction takes effect together.
idbWriteRescanAtomically_Complete ==
    /\ hpc = "rescanAll:write"
    /\ txPuts = Len(txOrders) + Len(txGenerators)
    /\ stOrders' = TxOrdersView
    /\ stGenerators' = TxGeneratorsView
    /\ hpc' = "rescanAll:readOrders"
    /\ UNCHANGED <<argVars, vaultVars, today, engineVars, probeVars, orders, generators,
                   minLockMinutes, busy, txOrders, txGenerators, txPuts, toast>>

\* Variant of RollBack that leaves in the store what the transaction had put.
RollBack_KeepsPuts(before, view) == view

\* What an aborted transaction leaves of a store: its content before the
\* transaction, whatever the transaction had put.
RollBack(before, view) == before

\* tx.onerror / tx.onabort after any number of puts: the transaction is
\* rolled back, the promise rejects, and rescanAll runs its catch.
idbWriteRescanAtomically_Abort ==
    /\ hpc = "rescanAll:write"
    /\ stOrders' = RollBack(stOrders, TxOrdersView)
    /\ stGenerators' = RollBack(stGenerators, TxGeneratorsView)
    /\ toast' = [msg |-> "Rescan failed.", kind |-> "error"]
    /\ hpc' = "rescanAll:finally"
    /\ UNCHANGED <<argVars, vaultVars, today, engineVars, probeVars,
                   orders, generators, minLockMinutes, busy, txOrders, txGenerators, txPuts>>

\* setOrders(await idbGetAll(db, STORE_ORDERS))
rescanAll_ReadOrders ==
    /\ hpc = "rescanAll:readOrders"
    /\ orders' = idbGetAll(stOrders)
    /\ hpc' = "rescanAll:readGenerators"
    /\ UNCHANGED <<argVars, vaultVars, today, engineVars, probeVars, stOrders, stGenerators,
                   generators, minLockMinutes, busy, txOrders, txGenerators, txPuts, toast>>

\* setGenerators(await idbGetAll(db, STORE_GENERATORS)); setToast(success)
rescanAll_ReadGenerators ==
    /\ hpc = "rescanAll:readGenerators"
    /\ generators' = idbGetAll(stGenerators)
    /\ toast' = [msg |-> "Rescan complete. Assignments updated.", kind |-> "success"]
    /\ hpc' = "rescanAll:finally"
    /\ UNCHANGED <<argVars, vaultVars, today, engineVars, probeVars, stOrders, stGenerators,
                   orders, minLockMinutes, busy, txOrders, txGenerators, txPuts>>

\* finally { setBusy(false); setTimeout(() => setToast(null), 3500) }
rescanAll_Finally ==
    /\ hpc = "rescanAll:finally"
    /\ busy' = FALSE
    /\ hpc' = "idle"
    /\ txOrders' = <<>>
    /\ txGenerators' = <<>>
    /\ txPuts' = 0
    /\ UNCHANGED <<argVars, vaultVars, today, engineVars, probeVars, stOrders, stGenerators,
                   orders, generators, minLockMinutes, toast>>

\* The timeout set by a handler's finally fires: setToast(null).
ToastTimeout ==
    /\ hpc = "idle"
    /\ toast # <<>>
    /\ toast' = <<>>
    /\ UNCHANGED <<argVars, vaultVars, today, engineVars, probeVars, stOrders, stGenerators,
                   orders, generators, minLockMinutes, busy, hpc, txOrders, txGenerators,
                   txPuts>>

NextRescan ==
    \/ SetMinLock
    \/ rescanAll_Begin
    \/ idbWriteRescanAtomically_Put
    \/ idbWriteRescanAtomically_Complete
    \/ idbWriteRescanAtomically_Abort
    \/ rescanAll_ReadOrders
    \/ rescanAll_ReadGenerators
    \/ rescanAll_Finally
    \/ ToastTimeout
    \/ ClockTick

SpecRescan == InitRescan /\ [][NextRescan]_vars

\* ============================================================ bundle import
\* Records for the stores of the import scenarios.
LiveA == MakeOrder(1, CHOOSE p \in OrderProfiles :
                          p.product = "PSMA" /\ p.requested_mCi_at_cal = 1500)
LiveB == MakeOrder(2, CHOOSE p \in OrderProfiles : p.product = "Dotatate")
FutureOrder(i) ==
    [LiveA EXCEPT !.id = FutureIds[i],
                  !.calibration_dt = [y |-> 2024, mo |-> 3, d |-> 2, h |-> 11, mi |-> 0]]
HospitalRecord(i) == [id |-> HospitalIds[i], name |-> HospitalIds[i], travel_minutes |-> 30]

\* Bundle files: whether JSON.parse accepts the text, and the four arrays of
\* the parsed document (a missing array reads as []).
Bundles ==
    { [parses |-> FALSE,
       generators |-> <<>>, hospitals |-> <<>>, orders |-> <<>>, future_orders |-> <<>>],
      [parses |-> TRUE,
       generators |-> <<>>, hospitals |-> <<>>, orders |-> <<>>, future_orders |-> <<>>],
      [parses |-> TRUE,
       generators |-> <<MakeGenerator(1, GenEfficient)>>, hospitals |-> <<HospitalRecord(2)>>,
       orders |-> <<LiveB>>, future_orders |-> <<FutureOrder(2)>>],
      [parses |-> TRUE,
       generators |-> <<MakeGenerator(1, GenRested), MakeGenerator(2, GenEfficient)>>,
       hospitals |-> <<HospitalRecord(1)>>,
       orders |-> <<LiveA, LiveB>>, future_orders |-> <<>>] }

\* The two import handlers of the repository: importBundle puts the bundle's
\* records into the stores; importBundleAtomic clears the stores first.
ImportHandlers == {"importBundle", "importBundleAtomic"}

IdleTask == [pc |-> "idle"]

\* What the import transaction makes of a store.
ImportInto(store, values, clearFirst) ==
    PutAll(IF clearFirst THEN <<>> ELSE store, values, 1)

InitImport ==
    /\ EngineIdle
    /\ ProbeIdle
    /\ today = Today
    /\ \E live \in {<<>>, <<LiveA>>, <<LiveA, LiveB>>},
          pool \in {<<MakeGenerator(1, GenRested)>>,
                    <<MakeGenerator(1, GenRested), MakeGenerator(2, GenRested)>>},
          vault \in {<<>>, <<FutureOrder(1)>>} :
        /\ stOrders = PutAll(<<>>, live, 1)
        /\ stGenerators = PutAll(<<>>, pool, 1)
        /\ stFutureOrders = PutAll(<<>>, vault, 1)
        /\ orders = live
        /\ generators = pool
        /\ futureOrders = vault
    /\ stHospitals = PutAll(<<>>, <<HospitalRecord(1)>>, 1)
    /\ minLockMinutes = 40
    /\ busy = FALSE
    /\ hpc = "idle"
    /\ txOrders = <<>>
    /\ txGenerators = <<>>
    /\ txPuts = 0
    /\ toast = <<>>
    /\ tasks = [h \in ImportHandlers |-> IdleTask]

\* A bundle file is chosen: setBusy(true), the file is read and parsed, and
\* the transaction over the four stores is opened with all its puts.  A file
\* that does not parse sends the handler to its catch.
importBundle_Begin(h) ==
    /\ tasks[h].pc = "idle"
    /\ busy' = TRUE
    /\ \E b \in Bundles :
        IF ~b.parses
        THEN /\ tasks' = [tasks EXCEPT ![h] = [pc |-> "finally"]]
             /\ toast' = [msg |-> "Import failed.", kind |-> "error"]
        ELSE /\ tasks' = [tasks EXCEPT ![h] = [pc |-> "tx", bundle |-> b]]
             /\ toast' = toast
    /\ UNCHANGED <<argVars, today, engineVars, probeVars, stOrders, stGenerators,
                   orders, generators, minLockMinutes, hpc, txOrders, txGenerators,
                   txPuts, stFutureOrders, stHospitals, futureOrders>>

\* tx.oncomplete of the import transaction.
importBundle_Complete(h) ==
    /\ tasks[h].pc = "tx"
    /\ \E clearFirst \in {h = "importBundleAtomic"} :
        /\ stGenerators' = ImportInto(stGenerators, tasks[h].bundle.generators, clearFirst)
        /\ stHospitals' = ImportInto(stHospitals, tasks[h].bundle.hospitals, clearFirst)
        /\ stOrders' = ImportInto(stOrders, tasks[h].bundle.orders, clearFirst)
        /\ stFutureOrders' =
              ImportInto(stFutureOrders, tasks[h].bundle.future_orders, clearFirst)
    /\ tasks' = [tasks EXCEPT ![h].pc = "reload"]
    /\ UNCHANGED <<argVars, today, engineVars, probeVars, orders, generators,
                   minLockMinutes, busy, hpc, txOrders, txGenerators, txPuts, toast,
                   futureOrders>>

\* tx.onerror / tx.onabort of the import transaction: rolled back, catch.
importBundle_Abort(h) ==
    /\ tasks[h].pc = "tx"
    /\ tasks' = [tasks EXCEPT ![h] = [pc |-> "finally"]]
    /\ toast' = [msg |-> "Import failed.", kind |-> "error"]
    /\ UNCHANGED <<argVars, today, engineVars, probeVars, stOrders, stGenerators,
                   orders, generators, minLockMinutes, busy, hpc, txOrders, txGenerators,
                   txPuts, stFutureOrders, stHospitals, futureOrders>>

\* The four setX(await idbGetAll(...)) and the success toast; the hospitals
\* state is not kept by the model.
importBundle_Reload(h) ==
    /\ tasks[h].pc = "reload"
    /\ generators' = idbGetAll(stGenerators)
    /\ orders' = idbGetAll(stOrders)
    /\ futureOrders' = idbGetAll(stFutureOrders)
    /\ toast' = [msg |-> "Bundle imported.", kind |-> "success"]
    /\ tasks' = [tasks EXCEPT ![h] = [pc |-> "finally"]]
    /\ UNCHANGED <<argVars, today, engineVars, probeVars, stOrders, stGenerators,
                   minLockMinutes, busy, hpc, txOrders, txGenerators, txPuts,
                   stFutureOrders, stHospitals>>

\* finally { setBusy(false) }
importBundle_Finally(h) ==
    /\ tasks[h].pc = "finally"
    /\ busy' = FALSE
    /\ tasks' = [tasks EXCEPT ![h] = IdleTask]
    /\ UNCHANGED <<argVars, today, engineVars, probeVars, stOrders, stGenerators,
                   orders, generators, minLockMinutes, hpc, txOrders, txGenerators,
                   txPuts, toast, stFutureOrders, stHospitals, futureOrders>>

NextImport ==
    \/ \E h \in ImportHandlers : importBundle_Begin(h)
    \/ \E h \in ImportHandlers : importBundle_Complete(h)
    \/ \E h \in ImportHandlers : importBundle_Abort(h)
    \/ \E h \in ImportHandlers : importBundle_Reload(h)
    \/ \E h \in ImportHandlers : importBundle_Finally(h)

SpecImport == InitImport /\ [][NextImport]_vars

\* ========================================= handlers that mutate live orders
\* The handlers that change the orders store and then rescan.  Each runs with
\* the `generators` and `minLockMinutes` of the render it was started from.
RescanHandlers == {"deleteOrder", "promoteFutureKeepDate"}

\* The handlers of the future vault.
VaultHandlers == {"promoteFutureKeepDate", "simulateAutoAssignFuture"}

\* genOrderIdDateBased(hospitalId, product): an id made of the clock reading,
\* which no stored order has.
genOrderIdDateBased == "O3"

\* Variant of toLivePayload that keeps every field of src but the id.
toLivePayload_KeepsAssignment(src, id) == [src EXCEPT !.id = id]

\* toLivePayload(src): a live order with a new id and none of the assignment
\* fields of src.
toLivePayload(src, id) ==
    [id |-> id, hospitalId |-> src.hospitalId, product |-> src.product,
     requested_mCi_at_cal |-> src.requested_mCi_at_cal,
     calibration_dt |-> src.calibration_dt,
     prep_minutes |-> src.prep_minutes, travel_minutes |-> src.travel_minutes,
     assignedGeneratorIds |-> <<>>, assigned_elute_dt |-> <<>>,
     assigned_delta_minutes |-> <<>>, notes |-> <<>>]

\* localDateStringFromISO(isoLocal)
localDateStringFromISO(isoLocal) == dateOnly(parseLocalDateTimeYYYYMMDDTHHMM(isoLocal))

\* The days the "simulate" buttons of the vault pass; <<>> for no day.
SimulatedDays == {<<>>, Today, Tomorrow}

\* The store without the record under the key.
idbDelete(store, key) == [k \in (DOMAIN store) \ {key} |-> store[k]]

InitApp ==
    /\ EngineIdle
    /\ ProbeIdle
    /\ today = Today
    /\ \E live \in {<<LiveA>>, <<LiveA, LiveB>>},
          pool \in {<<MakeGenerator(1, GenRested)>>,
                    <<MakeGenerator(1, GenRested), MakeGenerator(2, GenEfficient)>>} :
        /\ stOrders = PutAll(<<>>, live, 1)
        /\ stGenerators = PutAll(<<>>, pool, 1)
        /\ orders = live
        /\ generators = pool
    /\ stFutureOrders = <<>>
    /\ futureOrders = <<>>
    /\ stHospitals = PutAll(<<>>, <<HospitalRecord(1)>>, 1)
    /\ minLockMinutes = 40
    /\ busy = FALSE
    /\ hpc = "idle"
    /\ txOrders = <<>>
    /\ txGenerators = <<>>
    /\ txPuts = 0
    /\ toast = <<>>
    /\ tasks = [h \in {"deleteOrder"} |-> IdleTask]

\* The Delete button of a listed order is pressed and the confirm accepted:
\* setBusy(true), idbDelete requested.  The button is not disabled by `busy`.
deleteOrder_Begin ==
    /\ tasks["deleteOrder"].pc = "idle"
    /\ \E i \in 1..Len(orders) :
        tasks' = [tasks EXCEPT !["deleteOrder"] =
                     [pc |-> "mutate", id |-> orders[i].id,
                      generators |-> generators, minLockMinutes |-> minLockMinutes]]
    /\ busy' = TRUE
    /\ UNCHANGED <<argVars, today, engineVars, probeVars, stOrders, stGenerators,
                   orders, generators, minLockMinutes, hpc, txOrders, txGenerators,
                   txPuts, toast, stFutureOrders, stHospitals, futureOrders>>

\* await idbDelete(db, STORE_ORDERS, id) resolves.
deleteOrder_Deleted ==
    /\ tasks["deleteOrder"].pc = "mutate"
    /\ stOrders' = idbDelete(stOrders, tasks["deleteOrder"].id)
    /\ tasks' = [tasks EXCEPT !["deleteOrder"].pc = "getAll"]
    /\ UNCHANGED <<argVars, today, engineVars, probeVars, stGenerators,
                   orders, generators, minLockMinutes, busy, hpc, txOrders, txGenerators,
                   txPuts, toast, stFutureOrders, stHospitals, futureOrders>>

\* ords = await idbGetAll(orders); setOrders(ords); for a promotion also
\* setFutureOrders(await idbGetAll(future_orders)); runRescan(ords, generators)
\* with the handler's own `generators` and `minLockMinutes`; the transaction of
\* idbWriteRescanAtomically is opened.
Handler_GetAllRescan(h) ==
    /\ tasks[h].pc = "getAll"
    /\ orders' = idbGetAll(stOrders)
    /\ futureOrders' = IF h = "promoteFutureKeepDate" THEN idbGetAll(stFutureOrders)
                       ELSE futureOrders
    /\ \E reassigned \in {runRescan(idbGetAll(stOrders), tasks[h].generators,
                                    tasks[h].minLockMinutes, today)} :
        tasks' = [tasks EXCEPT ![h] =
                     [pc |-> "write", id |-> tasks[h].id,
                      txOrders |-> reassigned.orders,
                      txGenerators |-> UpdatedGens(tasks[h].generators,
                                                   reassigned.updatedById)]]
    /\ UNCHANGED <<argVars, today, engineVars, probeVars, stOrders, stGenerators,
                   generators, minLockMinutes, busy, hpc, txOrders, txGenerators,
                   txPuts, toast, stFutureOrders, stHospitals>>

\* tx.oncomplete of the handler's rescan transaction.
Handler_WriteComplete(h) ==
    /\ tasks[h].pc = "write"
    /\ stOrders' = PutAll(stOrders, tasks[h].txOrders, 1)
    /\ stGenerators' = PutAll(stGenerators, tasks[h].txGenerators, 1)
    /\ tasks' = [tasks EXCEPT ![h] = [pc |-> "readOrders", id |-> tasks[h].id]]
    /\ UNCHANGED <<argVars, today, engineVars, probeVars,
                   orders, generators, minLockMinutes, busy, hpc, txOrders, txGenerators,
                   txPuts, toast, stFutureOrders, stHospitals, futureOrders>>

\* An awaited request of the handler is rejected: nothing of it is written,
\* the handler runs its catch.
Handler_Fail(h) ==
    /\ tasks[h].pc \in {"mutate", "deleteFuture", "write", "put", "putFuture"}
    /\ tasks' = [tasks EXCEPT ![h] = [pc |-> "finally"]]
    /\ toast' = [msg |-> "Failed.", kind |-> "error"]
    /\ UNCHANGED <<argVars, today, engineVars, probeVars, stOrders, stGenerators,
                   orders, generators, minLockMinutes, busy, hpc, txOrders, txGenerators,
                   txPuts, stFutureOrders, stHospitals, futureOrders>>

\* setOrders(await idbGetAll(db, STORE_ORDERS))
Handler_ReadOrders(h) ==
    /\ tasks[h].pc = "readOrders"
    /\ orders' = idbGetAll(stOrders)
    /\ tasks' = [tasks EXCEPT ![h].pc = "readGenerators"]
    /\ UNCHANGED <<argVars, today, engineVars, probeVars, stOrders, stGenerators,
                   generators, minLockMinutes, busy, hpc, txOrders, txGenerators,
                   txPuts, toast, stFutureOrders, stHospitals, futureOrders>>

\* setGenerators(await idbGetAll(db, STORE_GENERATORS)); setToast(success)
Handler_ReadGenerators(h) ==
    /\ tasks[h].pc = "readGenerators"
    /\ generators' = idbGetAll(stGenerators)
    /\ toast' = [msg |-> "Done.", kind |-> "success"]
    /\ tasks' = [tasks EXCEPT ![h] = [pc |-> "finally"]]
    /\ UNCHANGED <<argVars, today, engineVars, probeVars, stOrders, stGenerators,
                   orders, minLockMinutes, busy, hpc, txOrders, txGenerators,
                   txPuts, stFutureOrders, stHospitals, futureOrders>>

\* finally { setBusy(false) }
Handler_Finally(h) ==
    /\ tasks[h].pc = "finally"
    /\ busy' = FALSE
    /\ tasks' = [tasks EXCEPT ![h] = IdleTask]
    /\ UNCHANGED <<argVars, today, engineVars, probeVars, stOrders, stGenerators,
                   orders, generators, minLockMinutes, hpc, txOrders, txGenerators,
                   txPuts, toast, stFutureOrders, stHospitals, futureOrders>>

\* simulateAutoAssignFuture(dayYYYYMMDD?) up to its first await: setBusy, the
\* target orders, the simulation on copies of them and of `generators`, and the
\* transaction on future_orders opened with its puts.  With no target order
\* the handler toasts and returns.
simulateAutoAssignFuture_Begin ==
    /\ tasks["simulateAutoAssignFuture"].pc = "idle"
    /\ busy' = TRUE
    /\ \E dayYYYYMMDD \in SimulatedDays :
        \E target \in {IF dayYYYYMMDD = <<>> THEN futureOrders
                        ELSE SelectSeq(futureOrders,
                                 LAMBDA o : localDateStringFromISO(o.calibration_dt)
                                                = dayYYYYMMDD)} :
            IF target = <<>>
            THEN /\ toast' = [msg |-> "No future orders to simulate.", kind |-> "info"]
                 /\ tasks' = [tasks EXCEPT !["simulateAutoAssignFuture"] =
                                  [pc |-> "finally"]]
            ELSE /\ toast' = toast
                 /\ \E sim \in {assignOrdersEfficientSim(target, generators,
                                    [policy |-> "simulation",
                                     minLockMinutes |-> minLockMinutes,
                                     respectLock |-> TRUE, treatFirstUseMax |-> TRUE,
                                     firstUseIgnoresLock |-> TRUE])} :
                        tasks' = [tasks EXCEPT !["simulateAutoAssignFuture"] =
                                     [pc |-> "put", sim |-> sim]]
    /\ UNCHANGED <<argVars, today, engineVars, probeVars, stOrders, stGenerators,
                   orders, generators, minLockMinutes, hpc, txOrders, txGenerators,
                   txPuts, stFutureOrders, stHospitals, futureOrders>>

\* tx.oncomplete of the transaction on future_orders.
simulateAutoAssignFuture_Complete ==
    /\ tasks["simulateAutoAssignFuture"].pc = "put"
    /\ stFutureOrders' =
          PutAll(stFutureOrders, tasks["simulateAutoAssignFuture"].sim.orders, 1)
    /\ tasks' = [tasks EXCEPT !["simulateAutoAssignFuture"] = [pc |-> "reload"]]
    /\ UNCHANGED <<argVars, today, engineVars, probeVars, stOrders, stGenerators,
                   orders, generators, minLockMinutes, busy, hpc, txOrders, txGenerators,
                   txPuts, toast, stHospitals, futureOrders>>

\* setFutureOrders(await idbGetAll(db, STORE_FUTURE_ORDERS)); setToast(info)
simulateAutoAssignFuture_Reload ==
    /\ tasks["simulateAutoAssignFuture"].pc = "reload"
    /\ futureOrders' = idbGetAll(stFutureOrders)
    /\ toast' = [msg |-> "Auto assignment completed.", kind |-> "info"]
    /\ tasks' = [tasks EXCEPT !["simulateAutoAssignFuture"] = [pc |-> "finally"]]
    /\ UNCHANGED <<argVars, today, engineVars, probeVars, stOrders, stGenerators,
                   orders, generators, minLockMinutes, busy, hpc, txOrders, txGenerators,
                   txPuts, stFutureOrders, stHospitals>>

\* A "Promote" button of a vault entry is pressed: the payload is built and
\* valid, the operator proceeds past the feasibility warning if there is one,
\* setBusy(true), idbPut of the payload requested.
promoteFutureKeepDate_Begin ==
    /\ tasks["promoteFutureKeepDate"].pc = "idle"
    /\ genOrderIdDateBased \notin DOMAIN stOrders
    /\ \E i \in 1..Len(futureOrders) :
        tasks' = [tasks EXCEPT !["promoteFutureKeepDate"] =
                     [pc |-> "mutate", id |-> futureOrders[i].id,
                      payload |-> toLivePayload(futureOrders[i], genOrderIdDateBased),
                      generators |-> generators, minLockMinutes |-> minLockMinutes]]
    /\ busy' = TRUE
    /\ UNCHANGED <<argVars, today, engineVars, probeVars, stOrders, stGenerators,
                   orders, generators, minLockMinutes, hpc, txOrders, txGenerators,
                   txPuts, toast, stFutureOrders, stHospitals, futureOrders>>

\* await idbPut(db, STORE_ORDERS, payload) resolves.
promoteFutureKeepDate_Put ==
    /\ tasks["promoteFutureKeepDate"].pc = "mutate"
    /\ stOrders' = idbPut(stOrders, tasks["promoteFutureKeepDate"].payload)
    /\ tasks' = [tasks EXCEPT !["promoteFutureKeepDate"].pc = "deleteFuture"]
    /\ UNCHANGED <<argVars, today, engineVars, probeVars, stGenerators,
                   orders, generators, minLockMinutes, busy, hpc, txOrders, txGenerators,
                   txPuts, toast, stFutureOrders, stHospitals, futureOrders>>

\* await idbDelete(db, STORE_FUTURE_ORDERS, fOrder.id) resolves.
promoteFutureKeepDate_DeleteFuture ==
    /\ tasks["promoteFutureKeepDate"].pc = "deleteFuture"
    /\ stFutureOrders' = idbDelete(stFutureOrders, tasks["promoteFutureKeepDate"].id)
    /\ tasks' = [tasks EXCEPT !["promoteFutureKeepDate"].pc = "getAll"]
    /\ UNCHANGED <<argVars, today, engineVars, probeVars, stOrders, stGenerators,
                   orders, generators, minLockMinutes, busy, hpc, txOrders, txGenerators,
                   txPuts, toast, stHospitals, futureOrders>>

NextApp ==
    \/ rescanAll_Begin
    \/ idbWriteRescanAtomically_Put
    \/ idbWriteRescanAtomically_Complete
    \/ idbWriteRescanAtomically_Abort
    \/ rescanAll_ReadOrders
    \/ rescanAll_ReadGenerators
    \/ rescanAll_Finally
    \/ deleteOrder_Begin
    \/ deleteOrder_Deleted
    \/ \E h \in DOMAIN tasks : Handler_GetAllRescan(h)
    \/ \E h \in DOMAIN tasks : Handler_WriteComplete(h)
    \/ \E h \in DOMAIN tasks : Handler_Fail(h)
    \/ \E h \in DOMAIN tasks : Handler_ReadOrders(h)
    \/ \E h \in DOMAIN tasks : Handler_ReadGenerators(h)
    \/ \E h \in DOMAIN tasks : Handler_Finally(h)

SpecApp == InitApp /\ [][NextApp]_vars

\* ------------------------------------------------------- the future vault
\* The App with live orders, a pool and two orders in the vault; the operator
\* promotes and simulates.
InitVault ==
    /\ EngineIdle
    /\ ProbeIdle
    /\ today = Today
    /\ \E live \in {<<LiveA>>, <<LiveA, LiveB>>},
          pool \in {<<MakeGenerator(1, GenRested)>>,
                    <<MakeGenerator(1, GenRested), MakeGenerator(2, GenEfficient)>>} :
        /\ stOrders = PutAll(<<>>, live, 1)
        /\ stGenerators = PutAll(<<>>, pool, 1)
        /\ orders = live
        /\ generators = pool
    /\ stFutureOrders = PutAll(<<>>, <<FutureOrder(1), FutureOrder(2)>>, 1)
    /\ futureOrders = <<FutureOrder(1), FutureOrder(2)>>
    /\ stHospitals = PutAll(<<>>, <<HospitalRecord(1)>>, 1)
    /\ minLockMinutes = 40
    /\ busy = FALSE
    /\ hpc = "idle"
    /\ txOrders = <<>>
    /\ txGenerators = <<>>
    /\ txPuts = 0
    /\ toast = <<>>
    /\ tasks = [h \in VaultHandlers |-> IdleTask]

NextVault ==
    \/ promoteFutureKeepDate_Begin
    \/ promoteFutureKeepDate_Put
    \/ promoteFutureKeepDate_DeleteFuture
    \/ simulateAutoAssignFuture_Begin
    \/ simulateAutoAssignFuture_Complete
    \/ simulateAutoAssignFuture_Reload
    \/ \E h \in DOMAIN tasks : Handler_GetAllRescan(h)
    \/ \E h \in DOMAIN tasks : Handler_WriteComplete(h)
    \/ \E h \in DOMAIN tasks : Handler_Fail(h)
    \/ \E h \in DOMAIN tasks : Handler_ReadOrders(h)
    \/ \E h \in DOMAIN tasks : Handler_ReadGenerators(h)
    \/ \E h \in DOMAIN tasks : Handler_Finally(h)

SpecVault == InitVault /\ [][NextVault]_vars

\* ========================================================= saving an order
\* A JavaScript number as the order form can hold it: a finite value (in the
\* unit of the field), NaN or Infinity.
Finite(v) == [kind |-> "finite", v |-> v]
NaN == [kind |-> "NaN", v |-> 0]
Infinity == [kind |-> "Infinity", v |-> 0]

\* Number.isFinite(x)
NumberIsFinite(x) == x.kind = "finite"

\* Number(field ?? fallback), <<>> standing for undefined
NumberOr(field, fallback) == IF field = <<>> THEN Finite(fallback) ELSE field

Products == {"PSMA", "Dotatate", "Research"}

\* Variant of validateOrderPayload without the test of the requested activity.
validateOrderPayload_SkipsRequested(p) ==
    IF p.hospitalId = "" THEN <<"Select hospital.">>
    ELSE IF p.product \notin Products THEN <<"Invalid product.">>
    ELSE IF ~NumberIsFinite(p.prep_minutes) \/ p.prep_minutes.v < 0
         THEN <<"Prep minutes must be >= 0.">>
    ELSE IF ~NumberIsFinite(p.travel_minutes) \/ p.travel_minutes.v < 0
         THEN <<"Travel minutes must be >= 0.">>
    ELSE <<>>

\* validateOrderPayload(p): the message, <<>> for null
validateOrderPayload(p) ==
    IF p.hospitalId = "" THEN <<"Select hospital.">>
    ELSE IF p.product \notin Products THEN <<"Invalid product.">>
    ELSE IF ~NumberIsFinite(p.requested_mCi_at_cal) \/ p.requested_mCi_at_cal.v <= 0
         THEN <<"Requested mCi must be > 0.">>
    ELSE IF ~NumberIsFinite(p.prep_minutes) \/ p.prep_minutes.v < 0
         THEN <<"Prep minutes must be >= 0.">>
    ELSE IF ~NumberIsFinite(p.travel_minutes) \/ p.travel_minutes.v < 0
         THEN <<"Travel minutes must be >= 0.">>
    ELSE <<>>

\* isPotentialDuplicateOrder(candidate, existingOrders)
isPotentialDuplicateOrder(candidate, existingOrders) ==
    [sameByFields |->
        \E k \in 1..Len(existingOrders) :
            /\ existingOrders[k].id # candidate.id
            /\ existingOrders[k].hospitalId = candidate.hospitalId
            /\ existingOrders[k].product = candidate.product
            /\ formatLocal(parseLocalDateTimeYYYYMMDDTHHMM(existingOrders[k].calibration_dt))
                 = formatLocal(parseLocalDateTimeYYYYMMDDTHHMM(candidate.calibration_dt)),
     idExists |-> \E k \in 1..Len(existingOrders) : existingOrders[k].id = candidate.id]

\* Variant of canFulfillOrder whose trial holds the candidate alone.
canFulfillOrder_CandidateAlone(candidate, existingOrders, currentGenerators, lock, day) ==
    LET baselineGens == normalizeDailyWear(
                            [i \in 1..Len(currentGenerators) |->
                                [currentGenerators[i] EXCEPT !.total_eluted_today_mCi = 0]],
                            day)
        reassigned   == assignOrdersEfficient(<<candidate>>, baselineGens, lock, day).orders
    IN  \E k \in 1..Len(reassigned) :
            /\ reassigned[k].id = candidate.id
            /\ Len(reassigned[k].assignedGeneratorIds) > 0

\* canFulfillOrder(candidate, existingOrders, currentGenerators), with the
\* state `minLockMinutes` and the clock it reads passed in
canFulfillOrder(candidate, existingOrders, currentGenerators, lock, day) ==
    LET trialOrders  == Append(SelectSeq(existingOrders, LAMBDA o : o.id # candidate.id),
                               candidate)
        baselineGens == normalizeDailyWear(
                            [i \in 1..Len(currentGenerators) |->
                                [currentGenerators[i] EXCEPT !.total_eluted_today_mCi = 0]],
                            day)
        reassigned   == assignOrdersEfficient(trialOrders, baselineGens, lock, day).orders
    IN  \E k \in 1..Len(reassigned) :
            /\ reassigned[k].id = candidate.id
            /\ Len(reassigned[k].assignedGeneratorIds) > 0

\* The order form as the operator may have filled it; "" is an empty text
\* field or no order being edited, <<>> a numeric field left undefined.
OrderForms ==
    [editingOrderId : {"", "O1"},
     hospitalId : {"", "H1"},
     product : {"PSMA", "Xenon"},
     requested_mCi_at_cal : {Finite(1500), Finite(0), Finite(0 - 500), NaN, Infinity},
     calibration_dt : {At(11, 0), [y |-> 2024, mo |-> 3, d |-> 2, h |-> 11, mi |-> 0]},
     prep_minutes : {Finite(30), Finite(0 - 2)},
     travel_minutes : {Finite(30), Finite(0 - 2)}]

\* The payload saveOrder builds from the form.
FormPayload(form) ==
    [id |-> IF form.editingOrderId # "" THEN form.editingOrderId ELSE genOrderIdDateBased,
     hospitalId |-> form.hospitalId,
     product |-> form.product,
     requested_mCi_at_cal |-> NumberOr(form.requested_mCi_at_cal, 0),
     calibration_dt |-> form.calibration_dt,
     prep_minutes |-> NumberOr(form.prep_minutes, 30),
     travel_minutes |-> NumberOr(form.travel_minutes, 0)]

\* A payload that passed validation, as the order record the stores and the
\* assignment functions work with; it has no assignment fields.
PayloadOrder(p) ==
    [id |-> p.id, hospitalId |-> p.hospitalId, product |-> p.product,
     requested_mCi_at_cal |-> p.requested_mCi_at_cal.v,
     calibration_dt |-> p.calibration_dt,
     prep_minutes |-> p.prep_minutes.v, travel_minutes |-> p.travel_minutes.v,
     assignedGeneratorIds |-> <<>>, assigned_elute_dt |-> <<>>,
     assigned_delta_minutes |-> <<>>, notes |-> <<>>]

\* Where saveOrder goes once canFulfillOrder has answered: for an order
\* calibrated today the alert or the put into the live store, for a later day
\* the put into the vault unless the operator declines the warning.
SaveOutcome(form, order, feasible, anyway, currentGenerators, lock, day) ==
    IF localDateStringFromISO(order.calibration_dt) = day
    THEN IF ~feasible
         THEN [pc |-> "alert", msg |-> <<"This order cannot be fulfilled today">>,
               form |-> form, payload |-> order, feasible |-> FALSE]
         ELSE [pc |-> "mutate", id |-> order.id, form |-> form, payload |-> order,
               feasible |-> TRUE,
               generators |-> currentGenerators, minLockMinutes |-> lock]
    ELSE IF ~feasible /\ ~anyway
    THEN IdleTask
    ELSE [pc |-> "putFuture", form |-> form, payload |-> order, feasible |-> feasible]

\* The App with live orders and a pool; the operator fills the order form.
InitSave ==
    /\ EngineIdle
    /\ ProbeIdle
    /\ today = Today
    /\ \E live \in {<<LiveA>>, <<LiveA, [LiveA EXCEPT !.id = "O2"]>>},
          pool \in {<<MakeGenerator(1, GenRested)>>,
                    <<MakeGenerator(1, GenRested), MakeGenerator(2, GenEfficient)>>,
                    <<MakeGenerator(1, GenWorn), MakeGenerator(2, GenRested)>>} :
        /\ stOrders = PutAll(<<>>, live, 1)
        /\ stGenerators = PutAll(<<>>, pool, 1)
        /\ orders = idbGetAll(PutAll(<<>>, live, 1))
        /\ generators = pool
    /\ stFutureOrders = <<>>
    /\ futureOrders = <<>>
    /\ stHospitals = PutAll(<<>>, <<HospitalRecord(1)>>, 1)
    /\ minLockMinutes = 40
    /\ busy = FALSE
    /\ hpc = "idle"
    /\ txOrders = <<>>
    /\ txGenerators = <<>>
    /\ txPuts = 0
    /\ toast = <<>>
    /\ tasks = [h \in {"saveOrder"} |-> IdleTask]

\* "Add Order" / "Save" is pressed: saveOrder up to its first await or to the
\* alert or declined confirm it returns from.  `proceed` is the operator's
\* answer to the duplicate confirm and `anyway` the one to the feasibility
\* confirm, should they be asked.
saveOrder_Submit ==
    /\ tasks["saveOrder"].pc = "idle"
    /\ \E form \in OrderForms, proceed \in BOOLEAN, anyway \in BOOLEAN :
        \E payload \in {FormPayload(form)} :
        \E err \in {IF form.hospitalId = "" THEN <<"Select hospital">>
                     ELSE validateOrderPayload(payload)} :
            IF err # <<>>
            THEN /\ tasks' = [tasks EXCEPT !["saveOrder"] =
                                  [pc |-> "alert", msg |-> err, form |-> form]]
                 /\ busy' = busy
            ELSE \E dup \in {isPotentialDuplicateOrder(payload, orders)} :
                 IF (dup.idExists \/ dup.sameByFields) /\ ~proceed
                 THEN /\ tasks' = tasks
                      /\ busy' = busy
                 ELSE \E order \in {PayloadOrder(payload)} :
                      \E feasible \in {canFulfillOrder(order, orders, generators,
                                                        minLockMinutes, today)} :
                      \E outcome \in {SaveOutcome(form, order, feasible, anyway,
                                                   generators, minLockMinutes, today)} :
                          /\ tasks' = [tasks EXCEPT !["saveOrder"] = outcome]
                          /\ busy' = IF outcome.pc \in {"mutate", "putFuture"}
                                     THEN TRUE ELSE busy
    /\ UNCHANGED <<argVars, today, engineVars, probeVars, stOrders, stGenerators,
                   orders, generators, minLockMinutes, hpc, txOrders, txGenerators,
                   txPuts, toast, stFutureOrders, stHospitals, futureOrders>>

\* The alert is closed: saveOrder returns.
saveOrder_AlertClosed ==
    /\ tasks["saveOrder"].pc = "alert"
    /\ tasks' = [tasks EXCEPT !["saveOrder"] = IdleTask]
    /\ UNCHANGED <<argVars, today, engineVars, probeVars, stOrders, stGenerators,
                   orders, generators, minLockMinutes, busy, hpc, txOrders, txGenerators,
                   txPuts, toast, stFutureOrders, stHospitals, futureOrders>>

\* await idbPut(db, STORE_ORDERS, payload) resolves.
saveOrder_Put ==
    /\ tasks["saveOrder"].pc = "mutate"
    /\ stOrders' = idbPut(stOrders, tasks["saveOrder"].payload)
    /\ tasks' = [tasks EXCEPT !["saveOrder"].pc = "getAll"]
    /\ UNCHANGED <<argVars, today, engineVars, probeVars, stGenerators,
                   orders, generators, minLockMinutes, busy, hpc, txOrders, txGenerators,
                   txPuts, toast, stFutureOrders, stHospitals, futureOrders>>

\* await idbPut(db, STORE_FUTURE_ORDERS, payload) resolves.
saveOrder_PutFuture ==
    /\ tasks["saveOrder"].pc = "putFuture"
    /\ stFutureOrders' = idbPut(stFutureOrders, tasks["saveOrder"].payload)
    /\ tasks' = [tasks EXCEPT !["saveOrder"] = [pc |-> "reloadFuture"]]
    /\ UNCHANGED <<argVars, today, engineVars, probeVars, stOrders, stGenerators,
                   orders, generators, minLockMinutes, busy, hpc, txOrders, txGenerators,
                   txPuts, toast, stHospitals, futureOrders>>

\* setFutureOrders(await idbGetAll(db, STORE_FUTURE_ORDERS)); setToast(success)
saveOrder_ReloadFuture ==
    /\ tasks["saveOrder"].pc = "reloadFuture"
    /\ futureOrders' = idbGetAll(stFutureOrders)
    /\ toast' = [msg |-> "Saved to Future Orders vault.", kind |-> "success"]
    /\ tasks' = [tasks EXCEPT !["saveOrder"] = [pc |-> "finally"]]
    /\ UNCHANGED <<argVars, today, engineVars, probeVars, stOrders, stGenerators,
                   orders, generators, minLockMinutes, busy, hpc, txOrders, txGenerators,
                   txPuts, stFutureOrders, stHospitals>>

NextSave ==
    \/ saveOrder_Submit
    \/ saveOrder_AlertClosed
    \/ saveOrder_Put
    \/ saveOrder_PutFuture
    \/ saveOrder_ReloadFuture
    \/ \E h \in DOMAIN tasks : Handler_GetAllRescan(h)
    \/ \E h \in DOMAIN tasks : Handler_WriteComplete(h)
    \/ \E h \in DOMAIN tasks : Handler_Fail(h)
    \/ \E h \in DOMAIN tasks : Handler_ReadOrders(h)
    \/ \E h \in DOMAIN tasks : Handler_ReadGenerators(h)
    \/ \E h \in DOMAIN tasks : Handler_Finally(h)

SpecSave == InitSave /\ [][NextSave]_vars

\* ============================================================== properties
\* Chronological order of two "YYYY-MM-DDTHH:MM" strings, read off their fields.
StampKey(s) == (((s.y - 2000) * 12 + s.mo) * 31 + s.d) * 1440 + s.h * 60 + s.mi

Processed == 1..Len(resultOrders)

IsStandard == argOptions # <<>> /\ argOptions.policy = "standard"

\* C1: within one call of the standard policy the orders are processed in
\* ascending calibration time, and are returned in that order, each with its
\* audit message at the same position, whatever the order of the input array.
C1_AscendingCalibrationOrder ==
    IsStandard =>
        /\ Len(msgs) = Len(resultOrders)
        /\ \A i \in Processed : msgs[i][2] = resultOrders[i].id
        /\ \A i, j \in Processed :
              i < j => StampKey(resultOrders[i].calibration_dt)
                         <= StampKey(resultOrders[j].calibration_dt)
        /\ \A i \in Processed : \A k \in 1..Len(sorted) :
              StampKey(resultOrders[i].calibration_dt) <= StampKey(sorted[k].calibration_dt)

\* C1 witness: a call whose input array was in descending calibration order has returned.
C1_Witness ==
    /\ IsStandard
    /\ pc = "returned"
    /\ Len(argOrders) = 2
    /\ StampKey(argOrders[1].calibration_dt) > StampKey(argOrders[2].calibration_dt)
    /\ Len(resultOrders) = 2

\* The ids of the generators the evaluator finds eligible for the order in the pool.
EligibleIdsFor(order, pool, lock) ==
    {pool[i].id : i \in {k \in 1..Len(pool) :
        availableAtElute_mCi(pool[k], requiredAtElute_mCi(order).eluteDt,
                             lock).eligible}}

\* The order is assigned when it is the only order of a call on the pool.
ServedAlone(order, pool, lock) ==
    StdIteration(order, pool, lock, Today).order.assignedGeneratorIds # <<>>

\* The order is assigned when it is processed right after the order `first`.
ServedAfter(order, first, pool, lock) ==
    StdIteration(order, StdIteration(first, pool, lock, Today).gens,
                 lock, Today).order.assignedGeneratorIds # <<>>

\* Two orders contend for the sole eligible generator of the pool: the same
\* single generator is eligible for each, each would get it alone, and
\* whichever is served first leaves the other without it.
Contend(a, b, pool, lock) ==
    /\ Cardinality(EligibleIdsFor(a, pool, lock)) = 1
    /\ EligibleIdsFor(a, pool, lock) = EligibleIdsFor(b, pool, lock)
    /\ ServedAlone(a, pool, lock)
    /\ ServedAlone(b, pool, lock)
    /\ ~ServedAfter(b, a, pool, lock)
    /\ ~ServedAfter(a, b, pool, lock)

ResultOf(id) == resultOrders[CHOOSE i \in Processed : resultOrders[i].id = id]

\* The two input positions <<earlier, later>> by calibration time, when they differ.
EarlierLater ==
    IF StampKey(argOrders[1].calibration_dt) < StampKey(argOrders[2].calibration_dt)
    THEN <<1, 2>> ELSE <<2, 1>>

\* C2: of two orders contending for the same sole eligible generator, the one
\* with the earlier calibration time is assigned and the later one is unmet,
\* in whichever order the two were supplied.
C2_EarlierCalibrationWins ==
    (/\ IsStandard
     /\ pc = "returned"
     /\ Len(argOrders) = 2
     /\ argOrders[1].calibration_dt # argOrders[2].calibration_dt
     /\ Contend(argOrders[1], argOrders[2], argGenerators, argOptions.minLockMinutes))
    => /\ ResultOf(argOrders[EarlierLater[1]].id).assignedGeneratorIds # <<>>
       /\ ResultOf(argOrders[EarlierLater[2]].id).assignedGeneratorIds = <<>>

\* C2 witness: two contending orders, the later one first in the input array,
\* in a pool that also holds a generator eligible for neither.
C2_Witness ==
    /\ IsStandard
    /\ pc = "returned"
    /\ Len(argOrders) = 2
    /\ Len(argGenerators) = 2
    /\ StampKey(argOrders[1].calibration_dt) > StampKey(argOrders[2].calibration_dt)
    /\ Contend(argOrders[1], argOrders[2], argGenerators, argOptions.minLockMinutes)
    /\ resultOrders[2].id = argOrders[1].id
    /\ resultOrders[2].assignedGeneratorIds = <<>>

\* Positions of the written orders that were assigned the generator.
UsersOf(id) == {i \in 1..Len(txOrders) : id \in SeqToSet(txOrders[i].assignedGeneratorIds)}

RECURSIVE SharesOf(_, _)
\* Sum of the per-generator shares of the written orders at the positions in `users`.
SharesOf(users, k) ==
    IF k > Len(txOrders) THEN 0
    ELSE (IF k \in users
          THEN requiredAtElute_mCi(txOrders[k]).required \div Len(txOrders[k].assignedGeneratorIds)
          ELSE 0) + SharesOf(users, k + 1)

\* The generator of the state array the rescan started from, wear normalized.
BaselineOf(id) ==
    LET base == normalizeDailyWear(generators, today)
    IN  base[CHOOSE i \in 1..Len(base) : base[i].id = id]

JustCommitted == hpc = "rescanAll:readOrders"

\* C3: once a rescan's transaction has committed, every stored generator that
\* the rescan assigned to some order carries as last_eluted_dt the elution time
\* of the last order assigned to it (orders are written in processing order),
\* and its wear is the normalized wear plus the shares drawn from it.
C3_RescanPersistsGeneratorUse ==
    JustCommitted =>
        \A id \in DOMAIN stGenerators :
            UsersOf(id) # {} =>
                LET lastUser == CHOOSE i \in UsersOf(id) : \A j \in UsersOf(id) : j <= i
                IN  /\ stGenerators[id].last_eluted_dt = txOrders[lastUser].assigned_elute_dt
                    /\ stGenerators[id].total_eluted_today_mCi =
                         BaselineOf(id).total_eluted_today_mCi + SharesOf(UsersOf(id), 1)

\* A rescan has committed orders of which one is assigned.
C3_Witness ==
    /\ JustCommitted
    /\ \E id \in DOMAIN stGenerators : UsersOf(id) # {}

IsProbed == verdict # <<>>

LastElutedInstant == parseLocalDateTimeYYYYMMDDTHHMM(probe.gen.last_eluted_dt)

\* C4 as stated: for every minLockMinutes L, a generator last eluted at t0 is
\* not eligible before t0 + L, and passes the lock check at or after t0 + L.
C4_LockEnforcedForEveryLock ==
    IsProbed =>
        /\ probe.eluteDt < LastElutedInstant + probe.minLockMinutes
              => ~verdict.avail.eligible
        /\ probe.eluteDt >= LastElutedInstant + probe.minLockMinutes
              => (verdict.avail.eligible \/ verdict.expired)

\* C4 amended: the same for every minLockMinutes L > 0.
C4_LockEnforcedForPositiveLock ==
    (IsProbed /\ probe.minLockMinutes > 0) =>
        /\ probe.eluteDt < LastElutedInstant + probe.minLockMinutes
              => (~verdict.avail.eligible
                  /\ (~verdict.expired => verdict.avail.reason[1] = "Lock: needs"))
        /\ probe.eluteDt >= LastElutedInstant + probe.minLockMinutes
              => (verdict.avail.eligible \/ verdict.expired)

\* C4 witness: half a minute before the end of a 20.5 minute lock window.
C4_Witness ==
    /\ IsProbed
    /\ probe.minLockMinutes = 41
    /\ probe.eluteDt = LastElutedInstant + 40
    /\ ~verdict.expired
    /\ ~verdict.avail.eligible

\* C5: a generator calibrated at D is not expired (and, the lock permitting,
\* eligible) at 23:59 of the day D + 1 year - 1 day, and is expired and
\* ineligible one minute later.
C5_ExpiryBoundary ==
    IsProbed =>
        /\ probe.eluteDt = InstantOn(LastServiceDay(probe.gen.calibration_dt), 23, 59)
              => /\ ~verdict.expired
                 /\ verdict.avail.reason # <<"Expired">>
                 /\ (probe.eluteDt >= LastElutedInstant + probe.minLockMinutes
                        => verdict.avail.eligible)
        /\ probe.eluteDt = InstantOn(LastServiceDay(probe.gen.calibration_dt), 23, 59) + 2
              => /\ verdict.expired
                 /\ ~verdict.avail.eligible
                 /\ verdict.avail.reason = <<"Expired">>

\* C5 witness: a generator calibrated on the leap day, probed one minute after
\* 2025-02-28T23:59.
C5_Witness ==
    /\ IsProbed
    /\ probe.gen.calibration_dt.mo = 2
    /\ probe.gen.calibration_dt.d = 29
    /\ probe.eluteDt = InstantOn([y |-> 2025, mo |-> 2, d |-> 28], 23, 59) + 2
    /\ verdict.expired

\* The instant at which the i-th processed order is eluted.
EluteInstant(i) == requiredAtElute_mCi(resultOrders[i]).eluteDt

\* The generator of the call's input with the given id.
InputGenerator(id) ==
    argGenerators[CHOOSE k \in 1..Len(argGenerators) : argGenerators[k].id = id]

SharedGenerator(i, j) ==
    SeqToSet(resultOrders[i].assignedGeneratorIds)
        \cap SeqToSet(resultOrders[j].assignedGeneratorIds) # {}

\* C6: in one run of the standard policy, two orders assigned the same
\* generator are eluted at least minLockMinutes apart, the later-processed one
\* after the earlier-processed one, and no order is assigned a generator that
\* is expired at the order's elution time.
C6_LockAndExpiryWithinRun ==
    IsStandard =>
        /\ \A i \in Processed : \A j \in Processed :
              (i < j /\ SharedGenerator(i, j)) =>
                  EluteInstant(j) - EluteInstant(i) >= argOptions.minLockMinutes
        /\ \A i \in Processed :
              \A id \in SeqToSet(resultOrders[i].assignedGeneratorIds) :
                  ~isGeneratorExpired(InputGenerator(id), EluteInstant(i))

\* A loop iteration of either policy has just pushed one output order.
IterationDone == pc = "loop" /\ Len(resultOrders') = Len(resultOrders) + 1

\* The order the iteration processed, and what it required.
Current == Head(sorted)
CurrentNeed == requiredAtElute_mCi(Current)

\* The candidate state of the k-th working generator as the policy in use
\* evaluates it for the current order.
CandidateOf(k) ==
    IF argOptions.policy = "standard"
    THEN availableAtElute_mCi(gens[k], CurrentNeed.eluteDt, argOptions.minLockMinutes)
    ELSE SimCandidate(gens[k], CurrentNeed.eluteDt, argOptions, usedFirst)

EligibleNow == {k \in 1..Len(gens) : CandidateOf(k).eligible}

SingleSuffices ==
    \E k \in EligibleNow : CandidateOf(k).available >= CurrentNeed.required

PairSuffices ==
    \E k \in EligibleNow : \E l \in EligibleNow :
        /\ k # l
        /\ CandidateOf(k).available + CandidateOf(l).available >= CurrentNeed.required

\* The output order the iteration pushed, and the working generators it names.
Pushed == resultOrders'[Len(resultOrders')]
PushedIndices == {k \in 1..Len(gens) : gens[k].id \in SeqToSet(Pushed.assignedGeneratorIds)}

RECURSIVE SumAvailable(_)
SumAvailable(ks) ==
    IF ks = {} THEN 0
    ELSE LET k == CHOOSE x \in ks : TRUE
         IN  CandidateOf(k).available + SumAvailable(ks \ {k})

\* C7: an iteration of the standard policy assigns the order exactly when some
\* single eligible generator has available >= required or, for a PSMA order,
\* some pair of distinct eligible generators has a summed available >=
\* required; the generators it assigns are eligible and their available
\* activities sum to at least required.
C7_AssignedIffSatisfiable ==
    [][(IterationDone /\ argOptions.policy = "standard") =>
          /\ (Pushed.assignedGeneratorIds # <<>>)
                <=> (SingleSuffices \/ (Current.product = "PSMA" /\ PairSuffices))
          /\ Pushed.assignedGeneratorIds # <<>> =>
                /\ PushedIndices \subseteq EligibleNow
                /\ SumAvailable(PushedIndices) >= CurrentNeed.required]_vars

\* The standard policy has assigned a pair to one order and left another unmet.
C7_Witness ==
    /\ IsStandard
    /\ \E i \in Processed : Len(resultOrders[i].assignedGeneratorIds) = 2
    /\ \E i \in Processed : resultOrders[i].assignedGeneratorIds = <<>>

\* C8: every order either policy returns has at most two assigned generators;
\* two only if it is a PSMA order, and then two different ones; and a non-PSMA
\* order that no single eligible generator satisfies is returned unmet, also
\* when a pair of eligible generators would suffice.
C8_AtMostTwoPairsOnlyForPSMA ==
    [][IterationDone =>
          /\ Len(Pushed.assignedGeneratorIds) <= 2
          /\ Len(Pushed.assignedGeneratorIds) = 2 =>
                /\ Pushed.product = "PSMA"
                /\ Pushed.assignedGeneratorIds[1] # Pushed.assignedGeneratorIds[2]
          /\ (Current.product # "PSMA" /\ ~SingleSuffices) =>
                Pushed.assignedGeneratorIds = <<>>]_vars

\* The first order processed is not a PSMA order and is unmet although two
\* generators of the input, eligible for it, together hold what it requires.
C8_Witness ==
    /\ IsStandard
    /\ Len(resultOrders) >= 1
    /\ resultOrders[1].product # "PSMA"
    /\ resultOrders[1].assignedGeneratorIds = <<>>
    /\ \E k \in 1..Len(argGenerators) : \E l \in 1..Len(argGenerators) :
          LET a == availableAtElute_mCi(argGenerators[k], EluteInstant(1),
                                        argOptions.minLockMinutes)
              b == availableAtElute_mCi(argGenerators[l], EluteInstant(1),
                                        argOptions.minLockMinutes)
          IN  /\ k # l
              /\ a.eligible
              /\ b.eligible
              /\ a.available + b.available
                    >= requiredAtElute_mCi(resultOrders[1]).required

SecondRunReturned == pc = "returned" /\ run = 2

\* C9: a second call of the standard policy on the same orders, generators and
\* minLockMinutes returns the same orders, assignment fields included, and the
\* same messages in the same order as the first call did.
C9_SecondRunIdentical ==
    SecondRunReturned => [orders |-> resultOrders, messages |-> msgs] = firstResult

\* Two calls have returned, the second one after local midnight, and they
\* assigned an order.
C9_Witness ==
    /\ SecondRunReturned
    /\ today = Tomorrow
    /\ firstResult.orders = resultOrders
    /\ \E i \in Processed : resultOrders[i].assignedGeneratorIds # <<>>

Returned == pc = "returned"

\* C10: what either policy returns holds exactly one output order and one
\* message for each input order, the message at the order's position naming
\* it, and every output order whose message does not report an assignment has
\* an empty assignedGeneratorIds and a note.
C10_NoOrderDropped ==
    Returned =>
        /\ Len(resultOrders) = Len(argOrders)
        /\ Len(msgs) = Len(argOrders)
        /\ \A i \in 1..Len(argOrders) :
              Cardinality({j \in Processed : resultOrders[j].id = argOrders[i].id}) = 1
        /\ \A j \in Processed :
              /\ msgs[j][2] = resultOrders[j].id
              /\ msgs[j][3] = "assigned" => resultOrders[j].assignedGeneratorIds # <<>>
              /\ msgs[j][3] # "assigned" =>
                    /\ resultOrders[j].assignedGeneratorIds = <<>>
                    /\ resultOrders[j].notes # <<>>

\* A call has returned two orders, one assigned and one unmet.
C10_Witness ==
    /\ Returned
    /\ Len(resultOrders) = 2
    /\ \E j \in Processed : resultOrders[j].assignedGeneratorIds = <<>>
    /\ \E j \in Processed : resultOrders[j].assignedGeneratorIds # <<>>

\* The first order a standard call on a single generator processed is eluted
\* ten minutes after the generator's last elution, under a 20 minute lock.
LockScenario ==
    /\ IsStandard
    /\ argOptions.minLockMinutes = 40
    /\ Len(argGenerators) = 1
    /\ Len(resultOrders) >= 1
    /\ EluteInstant(1) - parseLocalDateTimeYYYYMMDDTHHMM(argGenerators[1].last_eluted_dt) = 20

\* What the evaluator returns for the scenario's generator and elution time.
LockScenarioVerdict ==
    availableAtElute_mCi(argGenerators[1], EluteInstant(1), argOptions.minLockMinutes)

LockRelated(text) == text # <<>> /\ text[1] = "Lock: needs"

\* C11: in the lock scenario the order is returned unmet although the
\* available activity computed for the generator is not zero, and the note of
\* the order is lock-related.
C11_LockScenarioUnmetWithLockNote ==
    LockScenario =>
        /\ resultOrders[1].assignedGeneratorIds = <<>>
        /\ LockScenarioVerdict.available > 0
        /\ LockRelated(resultOrders[1].notes)

\* In the lock scenario the order is unmet, the available activity is not
\* zero, and the reason the evaluator gives for the generator is lock-related.
C11_LockScenarioUnmetEvaluatorReason ==
    LockScenario =>
        /\ resultOrders[1].assignedGeneratorIds = <<>>
        /\ LockScenarioVerdict.available > 0
        /\ LockRelated(LockScenarioVerdict.reason)
        /\ resultOrders[1].notes[1] = "Insufficient availability. Required @ elute"

C11_Witness == LockScenario

StoresUntouched == stOrders' = stOrders /\ stGenerators' = stGenerators

\* C12: the orders and the generators of one rescan are written by one
\* transaction.  From the start of rescanAll to the end of its write both
\* stores keep their pre-rescan content, until either both receive everything
\* the rescan wrote, or the write fails: then both still hold their pre-rescan
\* content, an error is reported, and rescanAll ends without writing again.
C12_RescanWriteAtomic ==
    [][/\ (hpc = "idle" /\ hpc' = "rescanAll:write") => StoresUntouched
       /\ hpc = "rescanAll:write" =>
            \/ hpc' = "rescanAll:write" /\ StoresUntouched
            \/ /\ hpc' = "rescanAll:readOrders"
               /\ stOrders' = PutAll(stOrders, txOrders, 1)
               /\ stGenerators' = PutAll(stGenerators, txGenerators, 1)
            \/ /\ hpc' = "rescanAll:finally"
               /\ StoresUntouched
               /\ toast' # <<>>
               /\ toast'.kind = "error"
       /\ hpc = "rescanAll:finally" => (StoresUntouched /\ hpc' \in {"idle", "rescanAll:finally"})
      ]_vars

\* The write of a rescan has failed after some but not all of its puts, one of
\* which would have changed the stored order.
C12_Witness ==
    /\ hpc = "rescanAll:finally"
    /\ toast # <<>>
    /\ toast.kind = "error"
    /\ txPuts > 0
    /\ txPuts < Len(txOrders) + Len(txGenerators)
    /\ stOrders[txOrders[1].id] # txOrders[1]

\* The store holds exactly the given records.
HoldsExactly(store, values) == store = PutAll(<<>>, values, 1)

\* The step that ends the transaction of the import handler h either leaves in
\* each of the four stores exactly the records of the bundle, or leaves the
\* four stores as they were.
ImportAllOrNothing(h) ==
    (tasks[h].pc = "tx" /\ tasks'[h].pc # "tx") =>
        \/ /\ tasks'[h].pc = "reload"
           /\ HoldsExactly(stGenerators', tasks[h].bundle.generators)
           /\ HoldsExactly(stHospitals', tasks[h].bundle.hospitals)
           /\ HoldsExactly(stOrders', tasks[h].bundle.orders)
           /\ HoldsExactly(stFutureOrders', tasks[h].bundle.future_orders)
        \/ /\ tasks'[h].pc = "finally"
           /\ UNCHANGED <<stGenerators, stHospitals, stOrders, stFutureOrders>>

\* C13: after importBundle the four stores hold exactly the records of the
\* bundle, with no record from before the import left over, or, when the
\* import fails, exactly what they held before.
C13_ImportAllOrNothing == [][ImportAllOrNothing("importBundle")]_vars

\* The same for importBundleAtomic, which clears the stores in the transaction.
C13_ClearingImportAllOrNothing == [][ImportAllOrNothing("importBundleAtomic")]_vars

\* importBundle has imported a bundle without order O1 and the orders store
\* still holds O1.
C13_Witness ==
    /\ tasks # <<>>
    /\ tasks["importBundle"].pc = "reload"
    /\ \A i \in 1..Len(tasks["importBundle"].bundle.orders) :
          tasks["importBundle"].bundle.orders[i].id # "O1"
    /\ "O1" \in DOMAIN stOrders

\* The operations that are between their read of the pools and the completion
\* of their rescan write.
RescansInFlight ==
    {h \in DOMAIN tasks : tasks[h].pc = "write"}
        \cup (IF hpc = "rescanAll:write" THEN {"rescanAll"} ELSE {})

\* This step starts a rescanning operation.
RescanningOperationStarts ==
    \/ hpc = "idle" /\ hpc' # "idle"
    \/ \E h \in DOMAIN tasks : tasks[h].pc = "idle" /\ tasks'[h].pc # "idle"

\* C14: while a rescanning operation is between its read of the pools and the
\* completion of its write, no other rescanning operation starts, and there is
\* never a second rescan in flight.
C14_NoOverlappingRescans ==
    [][/\ RescansInFlight # {} => ~RescanningOperationStarts
       /\ Cardinality(RescansInFlight') <= 1]_vars

\* rescanAll and deleteOrder both have their rescan transaction open.
C14_Witness == Cardinality(RescansInFlight) = 2

\* ----------------------------------------------------------------------- C15
\* The live orders held by a store are what a rescan over the full live set
\* with the stored generators returns.
RescannedLiveSet(ordersStore, generatorsStore, lock, day) ==
    idbGetAll(ordersStore) =
        runRescan(idbGetAll(ordersStore), idbGetAll(generatorsStore), lock, day).orders

LiveSetRescanned == RescannedLiveSet(stOrders, stGenerators, minLockMinutes, today)

\* An import of a bundle that carries live orders has just announced success.
ImportOfLiveOrdersSucceeded ==
    \E h \in DOMAIN tasks :
        /\ tasks[h].pc = "reload"
        /\ tasks[h].bundle.orders # <<>>
        /\ tasks'[h].pc = "finally"
        /\ toast'.kind = "success"

\* C15: every operation that creates, updates or deletes live orders, the
\* import of a bundle with live orders among them, has run a rescan over the
\* full live order set and persisted its result by the time it completes
\* successfully: at the success of such an import the stored live orders are
\* the rescanned ones.
C15_LiveMutationRescans ==
    [][ImportOfLiveOrdersSucceeded =>
            RescannedLiveSet(stOrders', stGenerators', minLockMinutes', today')]_vars

\* An import that carried live orders has succeeded and the stored live orders
\* are not what a rescan returns.
C15_Witness ==
    /\ toast # <<>>
    /\ toast.msg = "Bundle imported."
    /\ \E h \in DOMAIN tasks : tasks[h].pc = "finally"
    /\ stOrders # <<>>
    /\ ~LiveSetRescanned

\* ----------------------------------------------------------------------- C16
\* A step of simulateAutoAssignFuture.
SimulationStep ==
    tasks'["simulateAutoAssignFuture"] # tasks["simulateAutoAssignFuture"]

\* The assignment fields the store holds for a live order.
AssignmentOf(store, id) ==
    IF id \in DOMAIN store
    THEN <<store[id].assignedGeneratorIds, store[id].assigned_elute_dt,
           store[id].assigned_delta_minutes>>
    ELSE <<>>

\* The step completes a rescan transaction that puts the live order as the
\* standard policy returned it.
RescanWrites(id) ==
    \E h \in DOMAIN tasks :
        /\ tasks[h].pc = "write"
        /\ tasks'[h].pc = "readOrders"
        /\ \E k \in 1..Len(tasks[h].txOrders) : tasks[h].txOrders[k] = stOrders'[id]

\* C16: simulation is non-committing.  No step of simulateAutoAssignFuture
\* changes the generators store, the live orders store, the hospitals store
\* or the caller's `generators` and `orders`; it writes to future_orders only.
\* A live order of the store gets non-empty assignment fields only from a
\* rescan transaction, which carries the result of the standard policy.
C16_SimulationNonCommitting ==
    [][/\ SimulationStep =>
            /\ stGenerators' = stGenerators
            /\ stOrders' = stOrders
            /\ stHospitals' = stHospitals
            /\ generators' = generators
            /\ orders' = orders
       /\ \A id \in DOMAIN stOrders' :
            /\ AssignmentOf(stOrders', id) # AssignmentOf(stOrders, id)
            /\ stOrders'[id].assignedGeneratorIds # <<>>
            => RescanWrites(id)]_vars

\* A simulation has written generators into the orders of the vault, one of
\* them has since been promoted to a live order and a rescan has assigned it,
\* and the state `generators` is as the store holds it.
C16_Witness ==
    /\ \E f \in DOMAIN stFutureOrders : stFutureOrders[f].assignedGeneratorIds # <<>>
    /\ genOrderIdDateBased \in DOMAIN stOrders
    /\ stOrders[genOrderIdDateBased].assignedGeneratorIds # <<>>
    /\ tasks["simulateAutoAssignFuture"].pc = "idle"
    /\ generators = idbGetAll(stGenerators)

\* ----------------------------------------------------------------------- C17
\* The step is an iteration of the simulation loop that assigned generators
\* to the order it processed.
SimulationAssigns ==
    /\ pc = "loop"
    /\ argOptions.policy = "simulation"
    /\ Len(resultOrders') = Len(resultOrders) + 1
    /\ Last(resultOrders').assignedGeneratorIds # <<>>

\* The working copies after the standard policy's bookkeeping for the order
\* the step processed.
AdvancedCopies ==
    LET re  == requiredAtElute_mCi(Head(sorted))
        ids == Last(resultOrders').assignedGeneratorIds
    IN  ApplyWear(gens, ids, re.eluteDt, re.required \div Len(ids), today)

\* C17: within one simulation run every assignment advances last_eluted_dt
\* and the wear of the assigned generators on the run's working copies exactly
\* as the standard policy does, so a later order of the run sees the generator
\* as last eluted at the earlier order's elution time.
C17_SimulationAdvancesCopies ==
    [][SimulationAssigns => gens' = AdvancedCopies]_vars

\* A simulation run has assigned a generator to an order and has another
\* order still to process.
C17_Witness ==
    /\ pc = "loop"
    /\ argOptions.policy = "simulation"
    /\ sorted # <<>>
    /\ resultOrders # <<>>
    /\ Last(resultOrders).assignedGeneratorIds # <<>>
    /\ \E i \in 1..Len(gens) :
          /\ gens[i].id \in SeqToSet(Last(resultOrders).assignedGeneratorIds)
          /\ gens[i].last_eluted_dt # Last(resultOrders).assigned_elute_dt

\* ----------------------------------------------------------------------- C18
\* The generators of the call's input that are expired at an order's elution.
ExpiredFor(order) ==
    {argGenerators[k].id : k \in {k \in 1..Len(argGenerators) :
        isGeneratorExpired(argGenerators[k], requiredAtElute_mCi(order).eluteDt)}}

\* C18: under the simulation policy, whatever respectLock, treatFirstUseMax
\* and firstUseIgnoresLock are, no order is assigned a generator that is
\* expired at the order's elution time.
C18_SimulationNeverAssignsExpired ==
    argOptions.policy = "simulation" =>
        \A k \in 1..Len(resultOrders) :
            SeqToSet(resultOrders[k].assignedGeneratorIds) \cap ExpiredFor(resultOrders[k]) = {}

\* A simulation that respects no lock and gives no first-use bonus has
\* returned an order whose need an expired generator of the pool would cover
\* had it not expired.
C18_Witness ==
    /\ pc = "returned"
    /\ argOptions.policy = "simulation"
    /\ ~argOptions.respectLock
    /\ ~argOptions.treatFirstUseMax
    /\ \E k \in 1..Len(resultOrders) :
        \E i \in 1..Len(argGenerators) :
          /\ argGenerators[i].id \in ExpiredFor(resultOrders[k])
          /\ SimLiveCandidate(argGenerators[i], requiredAtElute_mCi(resultOrders[k]).eluteDt,
                              argOptions, {}).available
                >= requiredAtElute_mCi(resultOrders[k]).required

\* ----------------------------------------------------------------------- C19
\* The existing orders with the candidate injected: in the place of the
\* existing order of the same id, or at the end if there is none.
Inject(existingOrders, candidate) ==
    IF \E k \in 1..Len(existingOrders) : existingOrders[k].id = candidate.id
    THEN [k \in 1..Len(existingOrders) |->
             IF existingOrders[k].id = candidate.id THEN candidate ELSE existingOrders[k]]
    ELSE Append(existingOrders, candidate)

\* A trial run of the standard policy over the existing orders with the
\* candidate injected, on the caller's generators as a rescan prepares them,
\* gives the candidate a non-empty assignment.
TrialAssigns(candidate, existingOrders, currentGenerators, lock, day) ==
    LET trial == assignOrdersEfficient(Inject(existingOrders, candidate),
                                       normalizeDailyWear(currentGenerators, day),
                                       lock, day).orders
    IN  \E k \in 1..Len(trial) :
            trial[k].id = candidate.id /\ trial[k].assignedGeneratorIds # <<>>

\* saveOrder has just evaluated canFulfillOrder for its payload.
FeasibilityAsked ==
    /\ tasks["saveOrder"].pc = "idle"
    /\ "feasible" \in DOMAIN tasks'["saveOrder"]

\* C19: canFulfillOrder(candidate, existingOrders, generators) is true exactly
\* when a trial run of the standard policy over the existing orders, the one
\* of the candidate's id replaced by the candidate, assigns the candidate at
\* least one generator; and the check leaves the four stores and the caller's
\* `orders` and `generators` as they were.
C19_FeasibleIffTrialAssigns ==
    [][FeasibilityAsked =>
          /\ tasks'["saveOrder"].feasible
                <=> TrialAssigns(tasks'["saveOrder"].payload, orders, generators,
                                 minLockMinutes, today)
          /\ UNCHANGED <<stOrders, stGenerators, stFutureOrders, stHospitals,
                         orders, generators>>]_vars

\* saveOrder holds a verdict of canFulfillOrder on an edit of an existing
\* order made while another live order is stored.
C19_Witness ==
    /\ "feasible" \in DOMAIN tasks["saveOrder"]
    /\ tasks["saveOrder"].payload.id \in DOMAIN stOrders
    /\ Cardinality(DOMAIN stOrders) > 1

\* With the candidate moved behind the existing orders instead, where orders
\* of the same calibration time are processed before it, the verdict is that
\* of the trial run; the wear the generators carry makes no difference.
C19_FeasibleIffTrialWithCandidateLast ==
    [][FeasibilityAsked =>
          (tasks'["saveOrder"].feasible
              <=> TrialAssigns(tasks'["saveOrder"].payload,
                               SelectSeq(orders,
                                   LAMBDA o : o.id # tasks'["saveOrder"].payload.id),
                               generators, minLockMinutes, today))]_vars

\* ----------------------------------------------------------------------- C20
\* The form fails validation: no hospital, a product that is none of the
\* three, a requested activity that is not finite or not positive, or
\* negative prep or travel minutes.
InvalidForm(form) ==
    \/ form.hospitalId = ""
    \/ form.product \notin {"PSMA", "Dotatate", "Research"}
    \/ /\ form.requested_mCi_at_cal # <<>>
       /\ form.requested_mCi_at_cal.kind # "finite" \/ form.requested_mCi_at_cal.v <= 0
    \/ form.prep_minutes.kind = "finite" /\ form.prep_minutes.v < 0
    \/ form.travel_minutes.kind = "finite" /\ form.travel_minutes.v < 0

\* saveOrder has just been called with a form that fails validation.
InvalidSubmitted ==
    /\ tasks["saveOrder"].pc = "idle"
    /\ tasks'["saveOrder"].pc # "idle"
    /\ InvalidForm(tasks'["saveOrder"].form)

\* C20: saveOrder called with a form that fails validation informs the
\* operator and returns: it has not run the feasibility trial, runs no rescan,
\* does not raise `busy`, and the four stores are left as they were.
C20_InvalidOrderRejectedUntouched ==
    [][/\ InvalidSubmitted =>
            /\ tasks'["saveOrder"].pc = "alert"
            /\ "feasible" \notin DOMAIN tasks'["saveOrder"]
            /\ busy' = busy
       /\ InvalidSubmitted \/ tasks["saveOrder"].pc = "alert" =>
            /\ tasks'["saveOrder"].pc \in {"alert", "idle"}
            /\ UNCHANGED <<stOrders, stGenerators, stFutureOrders, stHospitals>>]_vars

\* saveOrder shows its alert for a form whose only fault is a negative travel
\* time, over stores that hold orders and generators.
C20_Witness ==
    /\ tasks["saveOrder"].pc = "alert"
    /\ tasks["saveOrder"].form.hospitalId # ""
    /\ tasks["saveOrder"].form.product \in Products
    /\ tasks["saveOrder"].form.requested_mCi_at_cal = Finite(1500)
    /\ tasks["saveOrder"].form.prep_minutes = Finite(30)
    /\ tasks["saveOrder"].form.travel_minutes.v < 0
    /\ tasks["saveOrder"].msg = <<"Travel minutes must be >= 0.">>
    /\ stOrders # <<>>
    /\ stGenerators # <<>>

\* ===================================================== the in-growth curve
\* Elution times tried on one generator, in ticks after its last elution: from
\* ten minutes before it to a week after it.
GrowthOffsets ==
    {0 - 20, 0, 1, 2, 4, 10, 20, 40, 80, 160, 320, 480, 640, 960, 1280, 1440,
     1680, 2880, 5760, 20160}

\* Twelve hours, in ticks: a span within which in-growth outweighs the decay
\* of the parent (the two balance 14.1 hours after an elution).
GrowthSpan == 1440
\* Four hours, in ticks: a span within which the in-growth between two of the
\* elution times tried exceeds the resolution of the activities.
SteepSpan == 480

GrowthArguments ==
    UNION { UNION { { [gen |-> ProbeGenerator(c, last), minLockMinutes |-> 0,
                       eluteDt |-> parseLocalDateTimeYYYYMMDDTHHMM(last) + ab[1],
                       laterDt |-> parseLocalDateTimeYYYYMMDDTHHMM(last) + ab[2]] :
                        ab \in {x \in GrowthOffsets \X GrowthOffsets : x[1] < x[2]} }
                    : last \in ProbeLastEluted(c) }
            : c \in ProbeCalibrations }

InitGrowth ==
    /\ EngineIdle
    /\ AppIdle
    /\ today = Today
    /\ probe \in GrowthArguments
    /\ verdict = <<>>

\* availableAtElute_mCi(gen, t, 0) for an elution time t and for a later one,
\* beside parentAtTime_mCi at the two times.
EvaluateGrowth ==
    /\ verdict = <<>>
    /\ verdict' = [avail  |-> availableAtElute_mCi(probe.gen, probe.eluteDt, probe.minLockMinutes),
                   later  |-> availableAtElute_mCi(probe.gen, probe.laterDt, probe.minLockMinutes),
                   parent |-> parentAtTime_mCi(probe.gen, probe.eluteDt),
                   parentLater |-> parentAtTime_mCi(probe.gen, probe.laterDt)]
    /\ UNCHANGED <<argVars, vaultVars, today, engineVars, probe, appVars>>

NextGrowth == EvaluateGrowth

SpecGrowth == InitGrowth /\ [][NextGrowth]_vars

GrowthProbed == verdict # <<>> /\ "later" \in DOMAIN verdict

\* Ticks between the generator's last elution and the later elution time.
LaterElapsed == probe.laterDt - LastElutedInstant

\* C21 as stated: with minLockMinutes = 0 and a fixed last elution, the
\* available activity at a later elution time is never below the available
\* activity at an earlier one.
C21_AvailableNonDecreasing ==
    GrowthProbed => verdict.avail.available <= verdict.later.available

\* C21 amended: the same for elution times up to twelve hours after the last
\* elution, strictly so up to four hours after it; at every elution time the
\* available activity is at most parent activity * efficiency.
C21_AvailableGrowsWithinHalfDay ==
    GrowthProbed =>
        /\ LaterElapsed <= GrowthSpan => verdict.avail.available <= verdict.later.available
        /\ (LaterElapsed <= SteepSpan /\ LaterElapsed > 0)
              => verdict.avail.available < verdict.later.available
        /\ verdict.avail.available * 100 <= verdict.parent * probe.gen.efficiency_pct
        /\ verdict.later.available * 100 <= verdict.parentLater * probe.gen.efficiency_pct

\* C21 witness: the two elution times are 80 and 160 minutes after the last
\* elution, and the available activity has grown between them.
C21_Witness ==
    /\ GrowthProbed
    /\ probe.eluteDt - LastElutedInstant = 160
    /\ LaterElapsed = 320
    /\ verdict.avail.available > 0
    /\ verdict.avail.available < verdict.later.available

\* The k-th working generator ranks before the l-th one for the current order:
\* higher efficiency, then more available, then longer since its last elution,
\* then less wear today, then the smaller id.
RanksBefore(k, l) ==
    LET a == CandidateOf(k)
        b == CandidateOf(l)
    IN  \/ gens[k].efficiency_pct > gens[l].efficiency_pct
        \/ /\ gens[k].efficiency_pct = gens[l].efficiency_pct
           /\ \/ a.available > b.available
              \/ /\ a.available = b.available
                 /\ \/ a.deltaSinceLastMin > b.deltaSinceLastMin
                    \/ /\ a.deltaSinceLastMin = b.deltaSinceLastMin
                       /\ \/ gens[k].total_eluted_today_mCi < gens[l].total_eluted_today_mCi
                          \/ /\ gens[k].total_eluted_today_mCi = gens[l].total_eluted_today_mCi
                             /\ IdRank(gens[k].id) < IdRank(gens[l].id)

\* The eligible generators that alone hold what the current order requires.
SufficientAlone == {k \in EligibleNow : CandidateOf(k).available >= CurrentNeed.required}

\* C22: when some eligible generator alone has available >= required, an
\* iteration of the standard policy assigns the order exactly one generator:
\* the one of those that ranks before every other of them by efficiency
\* descending, available descending, elapsed time descending, today's wear
\* ascending, id ascending.  No pair is assigned in that case.
C22_FirstSufficientInRanking ==
    [][(IterationDone /\ argOptions.policy = "standard" /\ SufficientAlone # {}) =>
          /\ Len(Pushed.assignedGeneratorIds) = 1
          /\ \E k \in SufficientAlone :
                /\ Pushed.assignedGeneratorIds = <<gens[k].id>>
                /\ \A l \in SufficientAlone \ {k} : RanksBefore(k, l)]_vars

\* C22 witness: the first order of a standard call is assigned G2 alone, while
\* G1 of the input is eligible for it and would also suffice alone.
C22_Witness ==
    /\ IsStandard
    /\ Len(resultOrders) >= 1
    /\ Len(argGenerators) >= 2
    /\ resultOrders[1].assignedGeneratorIds = <<"G2">>
    /\ LET a == availableAtElute_mCi(argGenerators[1], EluteInstant(1),
                                     argOptions.minLockMinutes)
       IN  /\ a.eligible
           /\ a.available >= requiredAtElute_mCi(resultOrders[1]).required

\* The pairs <<k, l>> of distinct eligible working generators, each pair once,
\* whose available activities together hold what the current order requires.
SufficientPairs ==
    {p \in EligibleNow \X EligibleNow :
        /\ p[1] < p[2]
        /\ CandidateOf(p[1]).available + CandidateOf(p[2]).available >= CurrentNeed.required}

PairTotal(p) == CandidateOf(p[1]).available + CandidateOf(p[2]).available

\* The pairs whose total is the greatest of the sufficient pairs.
GreatestPairs == {p \in SufficientPairs : \A q \in SufficientPairs : PairTotal(q) <= PairTotal(p)}

\* The pair as the double loop meets it: the better-ranked generator first.
Ranked(p) == IF RanksBefore(p[1], p[2]) THEN p ELSE <<p[2], p[1]>>

\* The loop over i < j of the ranked list meets pair p before pair q.
MetBefore(p, q) ==
    \/ RanksBefore(Ranked(p)[1], Ranked(q)[1])
    \/ /\ Ranked(p)[1] = Ranked(q)[1]
       /\ RanksBefore(Ranked(p)[2], Ranked(q)[2])

\* C23: when no single eligible generator suffices for a PSMA order, an
\* iteration of the standard policy assigns a pair exactly when some pair of
\* eligible generators holds the required activity together; the assigned
\* pair has the greatest total of those pairs and, of the pairs with that
\* total, is the one the loop over i < j of the ranked list meets first.
C23_GreatestPairFirstMet ==
    [][(/\ IterationDone
        /\ argOptions.policy = "standard"
        /\ Current.product = "PSMA"
        /\ SufficientAlone = {}) =>
          /\ SufficientPairs = {} => Pushed.assignedGeneratorIds = <<>>
          /\ SufficientPairs # {} =>
                \E p \in GreatestPairs :
                    /\ Pushed.assignedGeneratorIds = <<gens[Ranked(p)[1]].id, gens[Ranked(p)[2]].id>>
                    /\ \A q \in GreatestPairs \ {p} : MetBefore(p, q)]_vars

\* C23 witness: a PSMA order of a standard call was assigned the pair G2, G3,
\* while G1, which ranks before both, would also have held what the order
\* requires together with G2, and G4 would have together with G3 (the same
\* total as the assigned pair's).
C23_Witness ==
    /\ IsStandard
    /\ Len(argGenerators) = 4
    /\ Len(resultOrders) = 1
    /\ resultOrders[1].assignedGeneratorIds = <<"G2", "G3">>
    /\ LET avail(k) == availableAtElute_mCi(argGenerators[k], EluteInstant(1),
                                            argOptions.minLockMinutes)
           need     == requiredAtElute_mCi(resultOrders[1]).required
       IN  /\ \A k \in 1..4 : avail(k).eligible
           /\ argGenerators[1].efficiency_pct > argGenerators[2].efficiency_pct
           /\ avail(1).available + avail(2).available >= need
           /\ avail(3).available + avail(4).available
                 = avail(2).available + avail(3).available

\* The fields of a generator that an assignment never writes.
Identity(g) ==
    [id |-> g.id, activity_mCi |-> g.activity_mCi, efficiency_pct |-> g.efficiency_pct,
     calibration_dt |-> g.calibration_dt]

C25_UnmetLeavesGeneratorsUnchanged ==
    [][(/\ IterationDone
        /\ argOptions.policy = "standard"
        /\ Pushed.assignedGeneratorIds = <<>>) =>
          /\ gens' = gens
          /\ \A k \in 1..Len(gens) :
                /\ gens'[k].last_eluted_dt = gens[k].last_eluted_dt
                /\ gens'[k].total_eluted_today_mCi = gens[k].total_eluted_today_mCi
                /\ gens'[k].wearDate = gens[k].wearDate]_vars

\* C25 witness: a standard call has processed an unmet order and, after it, an
\* order it assigned; a generator whose wear date is not the current day went
\* through the unmet iteration.
C25_Witness ==
    /\ IsStandard
    /\ Len(resultOrders) = 2
    /\ resultOrders[1].assignedGeneratorIds = <<>>
    /\ resultOrders[2].assignedGeneratorIds # <<>>
    /\ \E k \in 1..Len(argGenerators) : argGenerators[k].wearDate # today

\* Ticks elapsed at the probed elution time since the generator's last
\* elution; none have elapsed at an elution time before it.
ElapsedSinceLast ==
    IF probe.eluteDt >= LastElutedInstant THEN probe.eluteDt - LastElutedInstant ELSE 0

\* The probed elution time is after the last minute of the generator's last
\* service day.
PastLastServiceDay ==
    probe.eluteDt > InstantOn(LastServiceDay(probe.gen.calibration_dt), 23, 59)

\* Whole minutes still missing to the end of the lock window, rounded up.
MissingMinutes ==
    CHOOSE n \in 0..probe.minLockMinutes :
        /\ 2 * n >= probe.minLockMinutes - ElapsedSinceLast
        /\ 2 * (n - 1) < probe.minLockMinutes - ElapsedSinceLast

VerdictProbed == IsProbed /\ "expired" \in DOMAIN verdict

\* C26: availableAtElute_mCi returns eligible exactly when the time elapsed
\* since the last elution is at least minLockMinutes and the generator is not
\* expired; its reason is "Expired" whenever the generator is expired, also
\* when the lock fails too; a lock message with the missing minutes when only
\* the lock fails; and absent exactly when the generator is eligible.
C26_EligibilityVerdict ==
    VerdictProbed =>
        /\ verdict.avail.eligible
              <=> (ElapsedSinceLast >= probe.minLockMinutes /\ ~PastLastServiceDay)
        /\ PastLastServiceDay => verdict.avail.reason = <<"Expired">>
        /\ (~PastLastServiceDay /\ ElapsedSinceLast < probe.minLockMinutes)
              => verdict.avail.reason = <<"Lock: needs", MissingMinutes, "more min">>
        /\ verdict.avail.reason = <<>> <=> verdict.avail.eligible
        /\ verdict.avail.deltaSinceLastMin = ElapsedSinceLast

\* C26 witness: the evaluator was asked about an expired generator inside its
\* lock window and answered "Expired".
C26_Witness ==
    /\ VerdictProbed
    /\ PastLastServiceDay
    /\ ElapsedSinceLast < probe.minLockMinutes
    /\ ~verdict.avail.eligible
    /\ verdict.avail.reason = <<"Expired">>

IsSimulation == argOptions # <<>> /\ argOptions.policy = "simulation"

\* The working generators that are not expired at the current order's elution.
LiveNow == {k \in 1..Len(gens) : ~isGeneratorExpired(gens[k], CurrentNeed.eluteDt)}

\* C27: in an iteration of the simulation policy with respectLock = false,
\* every working generator that is not expired at the order's elution time is
\* an eligible candidate, however short the time since its last elution, and
\* its candidate is the same under a minLockMinutes of one day; the order is assigned
\* whenever one such generator, or for PSMA a pair of them, holds enough.
C27_NoLockWhenNotRespected ==
    [][(IterationDone /\ argOptions.policy = "simulation" /\ ~argOptions.respectLock) =>
          /\ EligibleNow = LiveNow
          /\ \A k \in LiveNow :
                SimCandidate(gens[k], CurrentNeed.eluteDt,
                             [argOptions EXCEPT !.minLockMinutes = 2880], usedFirst)
                   = CandidateOf(k)
          /\ (\E k \in LiveNow : CandidateOf(k).available >= CurrentNeed.required)
                => Len(Pushed.assignedGeneratorIds) = 1
          /\ Pushed.assignedGeneratorIds # <<>>
                => PushedIndices \subseteq LiveNow]_vars

\* C27 witness: a simulation with respectLock = false and no first-use bonus
\* assigned an order to a generator eluted less than minLockMinutes before the
\* order's elution time.
C27_Witness ==
    /\ IsSimulation
    /\ ~argOptions.respectLock
    /\ ~argOptions.treatFirstUseMax
    /\ Len(resultOrders) >= 1
    /\ \E k \in 1..Len(argGenerators) :
          /\ resultOrders[1].assignedGeneratorIds = <<argGenerators[k].id>>
          /\ EluteInstant(1) - parseLocalDateTimeYYYYMMDDTHHMM(argGenerators[k].last_eluted_dt)
                < argOptions.minLockMinutes
          /\ EluteInstant(1) > parseLocalDateTimeYYYYMMDDTHHMM(argGenerators[k].last_eluted_dt)

\* The generators the orders processed so far in this run were assigned.
SelectedSoFar == UNION {SeqToSet(resultOrders[i].assignedGeneratorIds) : i \in Processed}

\* Parent activity of the k-th working generator at the current order's
\* elution, times its efficiency: the most an elution can yield.
TheoreticalMax(k) ==
    (parentAtTime_mCi(gens[k], CurrentNeed.eluteDt) * gens[k].efficiency_pct) \div 100

\* What the evaluator of the standard policy finds available in the k-th
\* working generator at the current order's elution.
InGrowthAvailable(k) ==
    availableAtElute_mCi(gens[k], CurrentNeed.eluteDt, argOptions.minLockMinutes).available

LockSatisfied(k) ==
    LET last == parseLocalDateTimeYYYYMMDDTHHMM(gens[k].last_eluted_dt)
    IN  (IF CurrentNeed.eluteDt >= last THEN CurrentNeed.eluteDt - last ELSE 0)
            >= argOptions.minLockMinutes

\* firstUseIgnoresLock is true or omitted in the options of the call.
FirstUseIgnoresLockSet ==
    "firstUseIgnoresLock" \notin DOMAIN argOptions \/ argOptions.firstUseIgnoresLock

NotYetSelected == {k \in LiveNow : gens[k].id \notin SelectedSoFar}
AlreadySelected == {k \in LiveNow : gens[k].id \in SelectedSoFar}

\* C29: in a simulation with treatFirstUseMax = true, (a) with
\* firstUseIgnoresLock true or omitted every non-expired generator not yet
\* selected in the run is eligible, its lock window satisfied or not; (b) with
\* firstUseIgnoresLock = false and respectLock = true a generator not yet
\* selected is eligible exactly when its lock window is satisfied; (c) in both
\* cases, with respectLock = true a generator already selected in the run is
\* eligible exactly when its lock window is satisfied.
C29_FirstUseLockBypass ==
    [][(IterationDone /\ argOptions.policy = "simulation" /\ argOptions.treatFirstUseMax) =>
          /\ FirstUseIgnoresLockSet => NotYetSelected \subseteq EligibleNow
          /\ (~FirstUseIgnoresLockSet /\ argOptions.respectLock) =>
                \A k \in NotYetSelected : k \in EligibleNow <=> LockSatisfied(k)
          /\ argOptions.respectLock =>
                \A k \in AlreadySelected : k \in EligibleNow <=> LockSatisfied(k)]_vars

\* C29 witness: a simulation with respectLock = true, treatFirstUseMax = true
\* and firstUseIgnoresLock omitted assigned its first order to a generator
\* inside its lock window, and left the second order, eluted inside the same
\* window, unmet.
C29_Witness ==
    /\ IsSimulation
    /\ argOptions.respectLock
    /\ argOptions.treatFirstUseMax
    /\ "firstUseIgnoresLock" \notin DOMAIN argOptions
    /\ Len(argGenerators) = 1
    /\ Len(resultOrders) = 2
    /\ resultOrders[1].assignedGeneratorIds = <<"G1">>
    /\ resultOrders[2].assignedGeneratorIds = <<>>
    /\ EluteInstant(1) - parseLocalDateTimeYYYYMMDDTHHMM(argGenerators[1].last_eluted_dt)
          < argOptions.minLockMinutes
    /\ EluteInstant(2) - parseLocalDateTimeYYYYMMDDTHHMM(argGenerators[1].last_eluted_dt)
          < argOptions.minLockMinutes

\* What the standard policy returns for the arguments of the call.
StandardOutcome ==
    assignOrdersEfficient(argOrders, argGenerators, argOptions.minLockMinutes, today).orders

\* The simulation knobs are set so that no lock is bypassed and no first use
\* is raised to the maximum.
PlainSimulation ==
    /\ IsSimulation
    /\ argOptions.respectLock
    /\ ~argOptions.treatFirstUseMax

\* C30: a simulation with respectLock = true and treatFirstUseMax = false
\* returns, order by order, the assigned generator ids and the elution time
\* that the standard policy returns for the same orders, generators and
\* minLockMinutes.
C30_PlainSimulationEqualsStandard ==
    (PlainSimulation /\ Returned) =>
        /\ Len(resultOrders) = Len(StandardOutcome)
        /\ \A i \in Processed :
              /\ resultOrders[i].id = StandardOutcome[i].id
              /\ resultOrders[i].assignedGeneratorIds = StandardOutcome[i].assignedGeneratorIds
              /\ resultOrders[i].assigned_elute_dt = StandardOutcome[i].assigned_elute_dt

\* C30 witness: a plain simulation on one generator returned two orders both
\* assigned that generator, the second of which the standard policy leaves
\* unmet.
C30_Witness ==
    /\ PlainSimulation
    /\ Returned
    /\ Len(argGenerators) = 1
    /\ Len(resultOrders) = 2
    /\ resultOrders[1].assignedGeneratorIds = <<"G1">>
    /\ resultOrders[2].assignedGeneratorIds = <<"G1">>
    /\ StandardOutcome[1].assignedGeneratorIds = <<"G1">>
    /\ StandardOutcome[2].assignedGeneratorIds = <<>>

\* Part of C30 that holds in every run: the elution times agree, and the
\* two policies agree on the first order processed.
C30_FirstOrderAndElutionTimesAgree ==
    (PlainSimulation /\ Returned) =>
        /\ Len(resultOrders) = Len(StandardOutcome)
        /\ \A i \in Processed :
              /\ resultOrders[i].id = StandardOutcome[i].id
              /\ resultOrders[i].assigned_elute_dt = StandardOutcome[i].assigned_elute_dt
        /\ resultOrders[1].assignedGeneratorIds = StandardOutcome[1].assignedGeneratorIds

\* ===================================================== wear normalization
\* Generators handed to normalizeDailyWear: wear counted on no day yet (<<>>),
\* yesterday, today or tomorrow, with and without wear.
WearGenerators ==
    { [GenRested EXCEPT !.wearDate = w, !.total_eluted_today_mCi = e] :
        w \in {<<>>, Yesterday, Today, Tomorrow}, e \in {0, 300} }

WearArguments ==
    { [gens |-> [i \in 1..Len(pp) |-> MakeGenerator(i, pp[i])], day |-> d] :
        pp \in (UNION {[1..n -> WearGenerators] : n \in 1..2}),
        d \in {Yesterday, Today, Tomorrow} }

InitWear ==
    /\ EngineIdle
    /\ AppIdle
    /\ today = Today
    /\ probe \in WearArguments
    /\ verdict = <<>>

\* The call normalizeDailyWear(gens, day).
NormalizeWear ==
    /\ verdict = <<>>
    /\ verdict' = [once |-> normalizeDailyWear(probe.gens, probe.day)]
    /\ UNCHANGED <<argVars, vaultVars, today, engineVars, probe, appVars>>

\* The call normalizeDailyWear(result, day) on what the first call returned.
NormalizeWearAgain ==
    /\ verdict # <<>>
    /\ DOMAIN verdict = {"once"}
    /\ verdict' = [once |-> verdict.once,
                   twice |-> normalizeDailyWear(verdict.once, probe.day)]
    /\ UNCHANGED <<argVars, vaultVars, today, engineVars, probe, appVars>>

NextWear == NormalizeWear \/ NormalizeWearAgain

SpecWear == InitWear /\ [][NextWear]_vars

WearNormalized == verdict # <<>> /\ "once" \in DOMAIN verdict

\* The fields of a generator that wear normalization does not write.
WithoutWear(g) == [f \in (DOMAIN g) \ {"total_eluted_today_mCi", "wearDate"} |-> g[f]]

\* What C31 says of the result `out` of normalizing `in` for day `d`.
WearPostcondition(in, out, d) ==
    /\ Len(out) = Len(in)
    /\ \A i \in 1..Len(in) :
        /\ out[i].wearDate = d
        /\ in[i].wearDate # d => out[i].total_eluted_today_mCi = 0
        /\ in[i].wearDate = d => out[i] = in[i]
        /\ DOMAIN out[i] = DOMAIN in[i]
        /\ WithoutWear(out[i]) = WithoutWear(in[i])

\* C31: normalizeDailyWear(gens, day) returns every generator with wearDate =
\* day; a generator whose wearDate differed has wear 0, one whose wearDate was
\* the day is passed through unchanged; no other field changes, the argument
\* is left as it was, and normalizing the result again returns the result.
C31_NormalizeDailyWear ==
    [][ /\ NormalizeWear =>
            /\ probe' = probe
            /\ WearPostcondition(probe.gens, verdict'.once, probe.day)
        /\ NormalizeWearAgain => verdict'.twice = verdict'.once ]_vars

\* A pool with one generator whose wear was counted on the day and one whose
\* wear was counted the day before has been normalized twice.
C31_Witness ==
    /\ WearNormalized
    /\ "twice" \in DOMAIN verdict
    /\ Len(probe.gens) = 2
    /\ probe.day = Today
    /\ probe.gens[1].wearDate = Today /\ probe.gens[1].total_eluted_today_mCi = 300
    /\ probe.gens[2].wearDate = Yesterday /\ probe.gens[2].total_eluted_today_mCi = 300
    /\ verdict.once[1].total_eluted_today_mCi = 300
    /\ verdict.once[2].total_eluted_today_mCi = 0

\* ------------------------------------------------- rescans start from scratch
\* Assignment fields an order may carry in the store: none, and those of an
\* assignment to a generator, made at another time.
StoredAssignments ==
    { [assignedGeneratorIds |-> <<>>, assigned_elute_dt |-> <<>>,
       assigned_delta_minutes |-> <<>>, notes |-> <<>>],
      [assignedGeneratorIds |-> <<"G2", "G1">>, assigned_elute_dt |-> At(9, 15),
       assigned_delta_minutes |-> <<75, 75>>, notes |-> <<"Combined generators", "G2", "G1">>] }

\* The orders with their four assignment fields replaced by those of a.
Restamp(os, a) ==
    [i \in 1..Len(os) |->
        [os[i] EXCEPT !.assignedGeneratorIds = a.assignedGeneratorIds,
                      !.assigned_elute_dt = a.assigned_elute_dt,
                      !.assigned_delta_minutes = a.assigned_delta_minutes,
                      !.notes = a.notes]]

\* Batches of one or two live orders, every order carrying the same stored
\* assignment fields.
StaleBatches ==
    { Restamp([i \in 1..Len(f) |-> MakeOrder(i, f[i])], a) :
        f \in UNION { [1..n -> {p \in OrderProfiles : p.product = "PSMA"}] : n \in 1..2 },
        a \in StoredAssignments }

\* The App is mounted over stores whose orders carry assignment fields of an
\* earlier rescan.
InitStale ==
    /\ EngineIdle
    /\ ProbeIdle
    /\ today = Today
    /\ \E batch \in StaleBatches, pool \in GeneratorPools :
        /\ stOrders = PutAll(<<>>, batch, 1)
        /\ stGenerators = PutAll(<<>>, pool, 1)
        /\ orders = batch
        /\ generators = pool
    /\ minLockMinutes \in LockChoices
    /\ busy = FALSE
    /\ hpc = "idle"
    /\ txOrders = <<>>
    /\ txGenerators = <<>>
    /\ txPuts = 0
    /\ toast = <<>>
    /\ stFutureOrders = <<>>
    /\ stHospitals = <<>>
    /\ futureOrders = <<>>
    /\ tasks = <<>>

SpecStale == InitStale /\ [][NextRescan]_vars

\* C32: the orders a rescan writes are those it would write had the orders it
\* read carried any other assignment fields: the assignment of every live
\* order is derived from scratch.
C32_RescanIgnoresStoredAssignment ==
    [][rescanAll_Begin =>
         \A a \in StoredAssignments :
             txOrders' = runRescan(Restamp(orders, a), generators, minLockMinutes,
                                   today).orders]_vars

\* A rescan is being written whose result leaves unmet an order that the
\* orders it read held as assigned by an earlier rescan.
C32_Witness ==
    /\ hpc = "rescanAll:write"
    /\ \E i \in 1..Len(orders), k \in 1..Len(txOrders) :
        /\ txOrders[k].id = orders[i].id
        /\ orders[i].assignedGeneratorIds # <<>>
        /\ orders[i].assigned_elute_dt # At(9, 15)
        /\ txOrders[k].assignedGeneratorIds = <<>>

\* ==================================================== deleting a generator
\* The App with live orders, a pool and an order in the vault; the operator
\* rescans and deletes generators.
InitPool ==
    /\ EngineIdle
    /\ ProbeIdle
    /\ today = Today
    /\ \E live \in {<<LiveA>>, <<LiveA, LiveB>>},
          pool \in {<<MakeGenerator(1, GenRested)>>,
                    <<MakeGenerator(1, GenRested), MakeGenerator(2, GenEfficient)>>} :
        /\ stOrders = PutAll(<<>>, live, 1)
        /\ stGenerators = PutAll(<<>>, pool, 1)
        /\ orders = live
        /\ generators = pool
    /\ stFutureOrders = PutAll(<<>>, <<FutureOrder(1)>>, 1)
    /\ futureOrders = <<FutureOrder(1)>>
    /\ stHospitals = PutAll(<<>>, <<HospitalRecord(1)>>, 1)
    /\ minLockMinutes = 40
    /\ busy = FALSE
    /\ hpc = "idle"
    /\ txOrders = <<>>
    /\ txGenerators = <<>>
    /\ txPuts = 0
    /\ toast = <<>>
    /\ tasks = [h \in {"deleteGenerator"} |-> IdleTask]

\* The Delete button of a listed generator is pressed and the confirm
\* accepted: setBusy(true), idbDelete requested.
deleteGenerator_Begin ==
    /\ tasks["deleteGenerator"].pc = "idle"
    /\ \E i \in 1..Len(generators) :
        tasks' = [tasks EXCEPT !["deleteGenerator"] =
                     [pc |-> "mutate", id |-> generators[i].id]]
    /\ busy' = TRUE
    /\ UNCHANGED <<argVars, today, engineVars, probeVars, stOrders, stGenerators,
                   orders, generators, minLockMinutes, hpc, txOrders, txGenerators,
                   txPuts, toast, stFutureOrders, stHospitals, futureOrders>>

\* Variant of deleteGenerator_Deleted that also takes the generator off the
\* orders assigned to it.
deleteGenerator_Cascades ==
    /\ tasks["deleteGenerator"].pc = "mutate"
    /\ stGenerators' = idbDelete(stGenerators, tasks["deleteGenerator"].id)
    /\ stOrders' =
          [k \in DOMAIN stOrders |->
              [stOrders[k] EXCEPT !.assignedGeneratorIds =
                  SelectSeq(@, LAMBDA g : g # tasks["deleteGenerator"].id)]]
    /\ tasks' = [tasks EXCEPT !["deleteGenerator"].pc = "reload"]
    /\ UNCHANGED <<argVars, today, engineVars, probeVars,
                   orders, generators, minLockMinutes, busy, hpc, txOrders, txGenerators,
                   txPuts, toast, stFutureOrders, stHospitals, futureOrders>>

\* await idbDelete(db, STORE_GENERATORS, id) resolves.
deleteGenerator_Deleted ==
    /\ tasks["deleteGenerator"].pc = "mutate"
    /\ stGenerators' = idbDelete(stGenerators, tasks["deleteGenerator"].id)
    /\ tasks' = [tasks EXCEPT !["deleteGenerator"].pc = "reload"]
    /\ UNCHANGED <<argVars, today, engineVars, probeVars, stOrders,
                   orders, generators, minLockMinutes, busy, hpc, txOrders, txGenerators,
                   txPuts, toast, stFutureOrders, stHospitals, futureOrders>>

\* setGenerators(await idbGetAll(db, STORE_GENERATORS)); setToast(success)
deleteGenerator_Reload ==
    /\ tasks["deleteGenerator"].pc = "reload"
    /\ generators' = idbGetAll(stGenerators)
    /\ toast' = [msg |-> "Generator deleted.", kind |-> "success"]
    /\ tasks' = [tasks EXCEPT !["deleteGenerator"] = [pc |-> "finally"]]
    /\ UNCHANGED <<argVars, today, engineVars, probeVars, stOrders, stGenerators,
                   orders, minLockMinutes, busy, hpc, txOrders, txGenerators,
                   txPuts, stFutureOrders, stHospitals, futureOrders>>

\* A step of the deleteGenerator handler.
deleteGenerator_Step ==
    \/ deleteGenerator_Begin
    \/ deleteGenerator_Deleted
    \/ deleteGenerator_Reload
    \/ Handler_Fail("deleteGenerator")
    \/ Handler_Finally("deleteGenerator")

NextPool ==
    \/ rescanAll_Begin
    \/ idbWriteRescanAtomically_Put
    \/ idbWriteRescanAtomically_Complete
    \/ idbWriteRescanAtomically_Abort
    \/ rescanAll_ReadOrders
    \/ rescanAll_ReadGenerators
    \/ rescanAll_Finally
    \/ deleteGenerator_Begin
    \/ deleteGenerator_Deleted
    \/ deleteGenerator_Reload
    \/ Handler_Fail("deleteGenerator")
    \/ Handler_Finally("deleteGenerator")

SpecPool == InitPool /\ [][NextPool]_vars

\* The stored live orders that name the generator among their assigned ones.
StoredUsersOf(store, gid) ==
    {k \in DOMAIN store :
        \E j \in 1..Len(store[k].assignedGeneratorIds) :
            store[k].assignedGeneratorIds[j] = gid}

\* C33: no step of deleteGenerator changes the live orders store or the future
\* orders store, and the step that deletes removes the one generator record
\* and nothing else: the orders assigned to the generator still name it.
C33_DeleteGeneratorFrame ==
    [][deleteGenerator_Step =>
         /\ stOrders' = stOrders
         /\ stFutureOrders' = stFutureOrders
         /\ \/ stGenerators' = stGenerators
            \/ /\ tasks["deleteGenerator"].pc = "mutate"
               /\ DOMAIN stGenerators' = (DOMAIN stGenerators) \ {tasks["deleteGenerator"].id}
               /\ \A k \in DOMAIN stGenerators' : stGenerators'[k] = stGenerators[k]
               /\ StoredUsersOf(stOrders', tasks["deleteGenerator"].id)
                    = StoredUsersOf(stOrders, tasks["deleteGenerator"].id)]_vars

\* A generator has been deleted from the store while a stored live order is
\* assigned to it.
C33_Witness ==
    /\ tasks # <<>>
    /\ "deleteGenerator" \in DOMAIN tasks
    /\ tasks["deleteGenerator"].pc = "reload"
    /\ tasks["deleteGenerator"].id \notin DOMAIN stGenerators
    /\ StoredUsersOf(stOrders, tasks["deleteGenerator"].id) # {}
    /\ stFutureOrders # <<>>

\* ------------------------------------------------------- rescanning again
\* The App of InitRescan with an operator who only rescans: the live orders,
\* the pool, minLockMinutes and the local day stay as they are.
NextTwice ==
    \/ rescanAll_Begin
    \/ idbWriteRescanAtomically_Put
    \/ idbWriteRescanAtomically_Complete
    \/ idbWriteRescanAtomically_Abort
    \/ rescanAll_ReadOrders
    \/ rescanAll_ReadGenerators
    \/ rescanAll_Finally
    \/ ToastTimeout

SpecTwice == InitRescan /\ [][NextTwice]_vars

\* The orders state holds what a completed rescan wrote: every order carries
\* an elution time.
HoldsRescanResult(os) == \A i \in 1..Len(os) : os[i].assigned_elute_dt # <<>>

\* The generators assigned to each order id, as a function of the id.
AssignedById(os) ==
    [id \in {os[i].id : i \in 1..Len(os)} |->
        os[CHOOSE i \in 1..Len(os) : os[i].id = id].assignedGeneratorIds]

\* C34: a rescan started over the result of a completed rescan, with the live
\* orders, the pool, minLockMinutes and the day unchanged in between, gives
\* every live order the assignedGeneratorIds it already had.
C34_RescanIdempotent ==
    [][(rescanAll_Begin /\ HoldsRescanResult(orders)) =>
          AssignedById(txOrders') = AssignedById(orders)]_vars

\* A second rescan is being written over the result of a first one that
\* assigned an order and left another unmet.
C34_Witness ==
    /\ hpc = "rescanAll:write"
    /\ orders # <<>>
    /\ HoldsRescanResult(orders)
    /\ \E i \in 1..Len(orders) : orders[i].assignedGeneratorIds # <<>>
    /\ \E i \in 1..Len(orders) : orders[i].assignedGeneratorIds = <<>>
    /\ AssignedById(txOrders) = AssignedById(orders)

\* ============================================= deleting during a rescan
\* IndexedDB starts a transaction only when every transaction created before
\* it whose scope overlaps its own has finished, unless both are read-only.
\* The transaction a handler is waiting for, by the handler's position:
NoTx == [mode |-> "none", scope |-> {}]
RescanAllTx ==
    CASE hpc = "rescanAll:write" ->
            [mode |-> "readwrite", scope |-> {"orders", "generators"}]
      [] hpc = "rescanAll:readOrders" -> [mode |-> "readonly", scope |-> {"orders"}]
      [] hpc = "rescanAll:readGenerators" -> [mode |-> "readonly", scope |-> {"generators"}]
      [] OTHER -> NoTx
HandlerTx(position) ==
    CASE position = "mutate" -> [mode |-> "readwrite", scope |-> {"orders"}]
      [] position = "getAll" -> [mode |-> "readonly", scope |-> {"orders"}]
      [] position = "write" -> [mode |-> "readwrite", scope |-> {"orders", "generators"}]
      [] position = "readOrders" -> [mode |-> "readonly", scope |-> {"orders"}]
      [] position = "readGenerators" -> [mode |-> "readonly", scope |-> {"generators"}]
      [] OTHER -> NoTx

\* Two transactions of which the later created waits for the earlier.
Ordered(a, b) ==
    /\ a.scope \cap b.scope # {}
    /\ a.mode = "readwrite" \/ b.mode = "readwrite"

\* rescanAll and deleteOrder over a database that orders their transactions.
\* A handler creates a transaction that has to wait for the other handler's
\* only in two cases, in which the state tells which was created first:
\* rescanAll opens its write while the delete is pending (the write waits),
\* and deleteOrder asks for the orders while a rescan write is pending (the
\* read waits).  Otherwise the handlers' transactions are independent.
NextRace ==
    \/ /\ tasks["deleteOrder"].pc \in {"idle", "mutate", "finally"}
       /\ rescanAll_Begin
    \/ /\ tasks["deleteOrder"].pc # "mutate"
       /\ idbWriteRescanAtomically_Put
    \/ /\ tasks["deleteOrder"].pc # "mutate"
       /\ idbWriteRescanAtomically_Complete
    \/ /\ tasks["deleteOrder"].pc # "mutate"
       /\ idbWriteRescanAtomically_Abort
    \/ /\ ~Ordered(HandlerTx(tasks["deleteOrder"].pc), HandlerTx("readGenerators"))
       /\ rescanAll_ReadOrders
    \/ rescanAll_ReadGenerators
    \/ rescanAll_Finally
    \/ /\ ~Ordered(RescanAllTx, HandlerTx("mutate"))
       /\ deleteOrder_Begin
    \/ deleteOrder_Deleted
    \/ /\ RescanAllTx = NoTx
       /\ Handler_GetAllRescan("deleteOrder")
    \/ /\ ~Ordered(RescanAllTx, HandlerTx("readOrders"))
       /\ Handler_WriteComplete("deleteOrder")
    \/ Handler_Fail("deleteOrder")
    \/ /\ ~Ordered(RescanAllTx, HandlerTx("readGenerators"))
       /\ Handler_ReadOrders("deleteOrder")
    \/ Handler_ReadGenerators("deleteOrder")
    \/ Handler_Finally("deleteOrder")

SpecRace == InitApp /\ [][NextRace]_vars

\* C35: when deleteOrder(id) completes successfully (its last await resolves
\* and it toasts "deleted"), the order id is not in the live orders store: no
\* rescan write computed from orders read before the delete has put it back.
C35_DeletedOrderStaysAbsent ==
    [][Handler_ReadGenerators("deleteOrder") =>
          tasks["deleteOrder"].id \notin DOMAIN stOrders']_vars

\* deleteOrder is past its delete, its rescan write and its reload of the
\* orders, and the order it deleted is in the live orders store and in the
\* orders state, put back by the write of a rescanAll that was started from
\* the orders state of before the delete.
C35_Witness ==
    /\ tasks # <<>>
    /\ "deleteOrder" \in DOMAIN tasks
    /\ tasks["deleteOrder"].pc = "readGenerators"
    /\ tasks["deleteOrder"].id \in DOMAIN stOrders
    /\ \E i \in 1..Len(orders) : orders[i].id = tasks["deleteOrder"].id
    /\ hpc = "idle"

\* ------------------------------------------- the trial and the rescan agree
\* C36: when saveOrder's rescan write completes (the handler got there because
\* canFulfillOrder answered true for the candidate over the orders and the
\* generators the rescan then ran on), the stored candidate has a non-empty
\* assignedGeneratorIds.
C36_FeasibleCandidateIsAssigned ==
    [][Handler_WriteComplete("saveOrder") =>
          /\ tasks["saveOrder"].id \in DOMAIN stOrders'
          /\ stOrders'[tasks["saveOrder"].id].assignedGeneratorIds # <<>>]_vars

\* saveOrder has written its rescan over a pool with wear of the day: the
\* candidate, an edit of the first of two orders calibrated at the same time,
\* is assigned and so is the other order.
C36_Witness ==
    /\ tasks # <<>>
    /\ "saveOrder" \in DOMAIN tasks
    /\ tasks["saveOrder"].pc = "readOrders"
    /\ tasks["saveOrder"].id = "O1"
    /\ DOMAIN stOrders = {"O1", "O2"}
    /\ stOrders["O1"].assignedGeneratorIds # <<>>
    /\ stOrders["O2"].assignedGeneratorIds # <<>>
    /\ \E i \in 1..Len(generators) :
        generators[i].wearDate = today /\ generators[i].total_eluted_today_mCi > 0

\* ------------------------------------------------------ promoting an order
\* The App of InitVault with an operator who only promotes.
NextPromote ==
    \/ promoteFutureKeepDate_Begin
    \/ promoteFutureKeepDate_Put
    \/ promoteFutureKeepDate_DeleteFuture
    \/ \E h \in DOMAIN tasks : Handler_GetAllRescan(h)
    \/ \E h \in DOMAIN tasks : Handler_WriteComplete(h)
    \/ \E h \in DOMAIN tasks : Handler_Fail(h)
    \/ \E h \in DOMAIN tasks : Handler_ReadOrders(h)
    \/ \E h \in DOMAIN tasks : Handler_ReadGenerators(h)
    \/ \E h \in DOMAIN tasks : Handler_Finally(h)

SpecPromote == InitVault /\ [][NextPromote]_vars

\* This step ends the try block of promoteFutureKeepDate, by its last await
\* resolving or by an await rejecting.
PromotionEnds ==
    /\ tasks["promoteFutureKeepDate"].pc \notin {"idle", "finally"}
    /\ tasks'["promoteFutureKeepDate"].pc = "finally"

\* C37: when a promotion ends, the order is in the live store under its fresh
\* id and no longer in the future store, or it is in the future store and not
\* in the live store: never in both pools.
C37_PromotionAllOrNothing ==
    [][PromotionEnds =>
          (genOrderIdDateBased \in DOMAIN stOrders')
              # (tasks["promoteFutureKeepDate"].id \in DOMAIN stFutureOrders')]_vars

\* A promotion has failed at its idbDelete: the payload is in the live store,
\* unassigned, and the order it was made from is still in the vault.
C37_Witness ==
    /\ tasks # <<>>
    /\ "promoteFutureKeepDate" \in DOMAIN tasks
    /\ tasks["promoteFutureKeepDate"].pc = "finally"
    /\ toast # <<>>
    /\ toast.kind = "error"
    /\ genOrderIdDateBased \in DOMAIN stOrders
    /\ stOrders[genOrderIdDateBased].assigned_elute_dt = <<>>
    /\ DOMAIN stFutureOrders = {"F1", "F2"}
    /\ \E f \in DOMAIN stFutureOrders :
        toLivePayload(stFutureOrders[f], genOrderIdDateBased) = stOrders[genOrderIdDateBased]

\* ------------------------------------------------ saving is all-or-nothing
\* The three stores saveOrder may write.
SavedStores == <<stOrders, stGenerators, stFutureOrders>>

\* C38: when saveOrder's rescan write fails, the order it had put is not left
\* in the live orders store without an assignment; and when the feasibility
\* check fails (the alert "cannot be fulfilled today"), no store is written.
C38_SaveAllOrNothing ==
    [][/\ (Handler_Fail("saveOrder") /\ tasks["saveOrder"].pc = "write") =>
              ~ /\ tasks["saveOrder"].id \in DOMAIN stOrders'
                /\ stOrders'[tasks["saveOrder"].id].assignedGeneratorIds = <<>>
       /\ (saveOrder_Submit /\ tasks'["saveOrder"].pc = "alert") =>
              SavedStores' = SavedStores]_vars

\* saveOrder has ended in its catch after its rescan write failed: the new
\* order is in the live orders store as the form gave it, with no assignment
\* fields, beside the orders that were there.
C38_Witness ==
    /\ tasks # <<>>
    /\ "saveOrder" \in DOMAIN tasks
    /\ tasks["saveOrder"].pc = "finally"
    /\ toast # <<>>
    /\ toast.kind = "error"
    /\ genOrderIdDateBased \in DOMAIN stOrders
    /\ stOrders[genOrderIdDateBased].assignedGeneratorIds = <<>>
    /\ stOrders[genOrderIdDateBased].assigned_elute_dt = <<>>
    /\ "O1" \in DOMAIN stOrders

\* ================================================= the order of the input
\* Pools handed to the standard policy beside a batch and a rearrangement of it.
PermutePools ==
    { [i \in 1..Len(pp) |-> MakeGenerator(i, pp[i])] :
        pp \in {<<GenRested>>, <<GenEfficient, GenJustEluted, GenRested>>} }

\* The rearrangements of n positions.
Rearrangements(n) == {f \in [1..n -> 1..n] : \A i, j \in 1..n : f[i] = f[j] => i = j}

\* Longest array handed to the standard policy with a rearrangement of it.
MaxRearranged == 3

\* Orders of the batches that are rearranged: two calibrated at 11:00, one at
\* 11:20 and one at 11:29.
RearrangedProfiles ==
    {p \in OrderProfiles : ~(p.product = "PSMA" /\ p.requested_mCi_at_cal = 2500)}

\* A batch with a rearrangement: the order at position i of the rearranged
\* array is the one at position perm[i].
PermuteArgument(f, pm, pool, l) ==
    [batch |-> [i \in 1..Len(f) |-> MakeOrder(i, f[i])], perm |-> pm,
     generators |-> pool, minLockMinutes |-> l]

Rearranged(batch, perm) == [i \in 1..Len(batch) |-> batch[perm[i]]]

InitPermute ==
    /\ EngineIdle
    /\ AppIdle
    /\ today = Today
    /\ \E n \in 1..MaxRearranged :
        \E f \in [1..n -> RearrangedProfiles], pm \in Rearrangements(n),
           pool \in PermutePools, l \in LockChoices :
            probe = PermuteArgument(f, pm, pool, l)
    /\ verdict = <<>>

\* assignOrdersEfficient on the batch and on the rearranged batch, with the
\* same generators and options.
AssignBoth ==
    /\ verdict = <<>>
    /\ verdict' =
          [given |-> assignOrdersEfficient(probe.batch, probe.generators,
                                           probe.minLockMinutes, today).orders,
           rearranged |-> assignOrdersEfficient(Rearranged(probe.batch, probe.perm),
                                                probe.generators,
                                                probe.minLockMinutes, today).orders]
    /\ UNCHANGED <<argVars, vaultVars, today, engineVars, probe, appVars>>

NextPermute == AssignBoth

SpecPermute == InitPermute /\ [][NextPermute]_vars

BothAssigned == verdict # <<>> /\ "rearranged" \in DOMAIN verdict

\* The rearrangement keeps the relative order of the orders of equal
\* calibration time.
KeepsTies(batch, perm) ==
    \A i, j \in 1..Len(batch) :
        (i < j /\ OrderCmp(batch[perm[i]], batch[perm[j]]) = 0) => perm[i] < perm[j]

\* Position of the order of that id in the array.
PositionOf(os, id) == CHOOSE i \in 1..Len(os) : os[i].id = id

\* The result lists the orders by calibration time, those of equal calibration
\* time in the order of the input array.
TiesInInputOrder(input, result) ==
    \A i, j \in 1..Len(result) :
        i < j =>
            /\ OrderCmp(result[i], result[j]) <= 0
            /\ OrderCmp(result[i], result[j]) = 0 =>
                  PositionOf(input, result[i].id) < PositionOf(input, result[j].id)

\* C39: the standard policy gives every order the same assignment for an
\* input array and for any rearrangement of it that keeps the relative order
\* of the orders of equal calibration time (any rearrangement at all when the
\* calibration times are pairwise distinct), and it processes orders of equal
\* calibration time in their input order.
C39_InputOrderMattersOnlyForTies ==
    BothAssigned =>
        /\ KeepsTies(probe.batch, probe.perm) => verdict.rearranged = verdict.given
        /\ TiesInInputOrder(probe.batch, verdict.given)
        /\ TiesInInputOrder(Rearranged(probe.batch, probe.perm), verdict.rearranged)

\* Three orders of pairwise distinct calibration times were given in the
\* reverse of their calibration order; one is assigned and one is unmet, as
\* for the array in calibration order.
C39_Witness ==
    /\ BothAssigned
    /\ Len(probe.batch) = 3
    /\ \A i, j \in 1..3 : i < j => OrderCmp(probe.batch[i], probe.batch[j]) < 0
    /\ probe.perm = [i \in 1..3 |-> 4 - i]
    /\ verdict.rearranged = verdict.given
    /\ \E i \in 1..3 : verdict.given[i].assignedGeneratorIds # <<>>
    /\ \E i \in 1..3 : verdict.given[i].assignedGeneratorIds = <<>>

\* ------------------------------------------- last elutions only move forward
\* The last elution of the k-th working generator before and after the step.
LastElutedBefore(k) == parseLocalDateTimeYYYYMMDDTHHMM(gens[k].last_eluted_dt)
LastElutedAfter(k) == parseLocalDateTimeYYYYMMDDTHHMM(gens'[k].last_eluted_dt)

=============================================================================
